---- MODULE Spec2Model ----
(***************************************************************************)
(* FormTrack content script (capture engine): native submit capture,      *)
(* provider capture chains with retry, submit-control discovery, and      *)
(* fetch / XMLHttpRequest interception, modelled as state machines.       *)
(*                                                                         *)
(* Strings are TLA+ strings; substring tests, case folding and prefix     *)
(* stripping are computed character by character with SubSeq.             *)
(* An absent attribute (getAttribute -> null, property -> "") is the       *)
(* empty string: every place the code reads one only tests truthiness.    *)
(***************************************************************************)
EXTENDS Integers, Sequences, FiniteSets, TLC

VARIABLES
    page,        \* window.location / document.title of the host page
    dom,         \* the controls the page renders, in document order
    rendered,    \* whether the page has rendered its controls yet
    pageState,   \* the provider's in-page state object (<<>>: none exposed)
    formAction,  \* form.action of the native form ("" when it has none)
    chan,        \* state of the delivery channel chrome.runtime
    dispatched,  \* messages handed to safeSendMessage, in order
    sendCalls,   \* number of chrome.runtime.sendMessage invocations
    lastSend,    \* outcome of the last safeSendMessage call
    lastTrigger, \* the DOM event handler that ran last ("none" before the first)
    nodes,       \* per submit-like node: present, watched mark, listener counts
    observers,   \* MutationObservers created by the engine, per provider
    intervals,   \* setInterval timers created by the engine
    mutated,     \* a DOM mutation record awaits delivery to the observers
    timers,      \* pending timer callbacks, earliest first, with remaining delay
    chains,      \* history of the capture chains started so far
    userEvents,  \* log of renders and of the user's clicks and presses
    xhr,         \* _formtrackMethod / _formtrackUrl of the page's XMLHttpRequest
    lastCall,    \* outcome of the last call of a wrapped network primitive
    netCalls,    \* calls of wrapped network primitives so far
    extracted,   \* direct invocations of the extractors and what they returned
    storage,     \* chrome.storage.local of the extension: keys set and their values
    badge,       \* text of the action badge
    pending,     \* extension API calls issued by the worker and not yet settled
    saves,       \* history of the FORM_SUBMISSION messages the worker handled
    requests,    \* external HTTP requests the worker made, in order
    events       \* messages and lifecycle events delivered to the worker so far

pageVars == <<page, dom, rendered, pageState, formAction>>
sendVars == <<chan, dispatched, sendCalls, lastSend>>
watchVars == <<nodes, observers, intervals, mutated>>
runVars == <<timers, chains, userEvents, lastTrigger>>
netVars == <<xhr, lastCall, netCalls>>
workerVars == <<storage, badge, pending, saves, requests, events>>

vars == <<page, dom, rendered, pageState, formAction, chan, dispatched, sendCalls,
          lastSend, lastTrigger, nodes, observers, intervals, mutated, timers,
          chains, userEvents, xhr, lastCall, netCalls, extracted, storage, badge,
          pending,
          saves, requests, events>>

----------------------------------------------------------------------------
(* Bounds *)

MaxControls == 2      \* controls in the document
MaxDispatched == 2    \* native submit events that dispatch
MaxUserEvents == 2    \* clicks and presses on submit controls
MaxObservers == 3
MaxNetCalls == 2      \* calls of fetch / XMLHttpRequest.send
MaxMessages == 2      \* messages delivered to the background worker
MaxExtractions == 2   \* direct invocations of an extractor

Providers == {"google", "microsoft", "clickup"}

----------------------------------------------------------------------------
(* String primitives *)

LowerChar(c) ==
    CASE c = "A" -> "a" [] c = "B" -> "b" [] c = "C" -> "c" [] c = "D" -> "d"
      [] c = "E" -> "e" [] c = "F" -> "f" [] c = "G" -> "g" [] c = "H" -> "h"
      [] c = "I" -> "i" [] c = "J" -> "j" [] c = "K" -> "k" [] c = "L" -> "l"
      [] c = "M" -> "m" [] c = "N" -> "n" [] c = "O" -> "o" [] c = "P" -> "p"
      [] c = "Q" -> "q" [] c = "R" -> "r" [] c = "S" -> "s" [] c = "T" -> "t"
      [] c = "U" -> "u" [] c = "V" -> "v" [] c = "W" -> "w" [] c = "X" -> "x"
      [] c = "Y" -> "y" [] c = "Z" -> "z" [] OTHER -> c

UpperChar(c) ==
    CASE c = "a" -> "A" [] c = "b" -> "B" [] c = "c" -> "C" [] c = "d" -> "D"
      [] c = "e" -> "E" [] c = "f" -> "F" [] c = "g" -> "G" [] c = "h" -> "H"
      [] c = "i" -> "I" [] c = "j" -> "J" [] c = "k" -> "K" [] c = "l" -> "L"
      [] c = "m" -> "M" [] c = "n" -> "N" [] c = "o" -> "O" [] c = "p" -> "P"
      [] c = "q" -> "Q" [] c = "r" -> "R" [] c = "s" -> "S" [] c = "t" -> "T"
      [] c = "u" -> "U" [] c = "v" -> "V" [] c = "w" -> "W" [] c = "x" -> "X"
      [] c = "y" -> "Y" [] c = "z" -> "Z" [] OTHER -> c

RECURSIVE toLowerCase(_)
toLowerCase(s) ==
    IF Len(s) = 0 THEN ""
    ELSE LowerChar(SubSeq(s, 1, 1)) \o toLowerCase(SubSeq(s, 2, Len(s)))

RECURSIVE toUpperCase(_)
toUpperCase(s) ==
    IF Len(s) = 0 THEN ""
    ELSE UpperChar(SubSeq(s, 1, 1)) \o toUpperCase(SubSeq(s, 2, Len(s)))

\* String.prototype.includes
includes(s, pat) ==
    \E i \in 1..(Len(s) - Len(pat) + 1) : SubSeq(s, i, i + Len(pat) - 1) = pat

\* String.prototype.startsWith
startsWith(s, pre) ==
    Len(s) >= Len(pre) /\ SubSeq(s, 1, Len(pre)) = pre

\* RegExp.prototype.test for a literal pattern with the i flag
testI(pat, s) == includes(toLowerCase(s), toLowerCase(pat))

\* String.prototype.trim (the model's only white space is the blank)
RECURSIVE trim(_)
trim(s) ==
    IF Len(s) = 0 THEN ""
    ELSE IF SubSeq(s, 1, 1) = " " THEN trim(SubSeq(s, 2, Len(s)))
    ELSE IF SubSeq(s, Len(s), Len(s)) = " " THEN trim(SubSeq(s, 1, Len(s) - 1))
    ELSE s

\* JavaScript undefined and null, where a string is expected
UNDEFINED == "(undefined)"
NULL == "(null)"

Falsy(x) == x \in {"", UNDEFINED, NULL}

\* a || b
Or(a, b) == IF Falsy(a) THEN b ELSE a

----------------------------------------------------------------------------
(* Background worker: storage, badge and the calls in flight.               *)
(* A submission is identified by its arrival number at the worker; the     *)
(* worker never looks inside message.data when it stores it.  Calls of the *)
(* extension API settle in the order they were issued, and the code after  *)
(* an await runs when its call settles.                                    *)

MAX_SUBMISSIONS == 200

StorageKeys == {"submissions", "ignoreList", "settings"}

\* settings as the popup stores them; a missing property is UNDEFINED
Settings(key, to, enabled) ==
    [resendApiKey |-> key, emailTo |-> to, emailEnabled |-> enabled]

\* the settings initStorage writes
DefaultSettings == Settings(UNDEFINED, UNDEFINED, "true")

\* result.settings || {}
NoSettings == Settings(UNDEFINED, UNDEFINED, UNDEFINED)

FreshStorage == [has |-> {}, submissions |-> <<>>, settings |-> NoSettings]

\* result.submissions || []
storedSubmissions(st) == IF "submissions" \in st.has THEN st.submissions ELSE <<>>

\* result.settings || {}
storedSettings(st) == IF "settings" \in st.has THEN st.settings ELSE NoSettings

\* chrome.storage.local.set({ submissions })
setSubmissions(st, list) ==
    [st EXCEPT !.has = @ \cup {"submissions"}, !.submissions = list]

\* chrome.storage.local.set({ settings })
setSettings(st, settings) ==
    [st EXCEPT !.has = @ \cup {"settings"}, !.settings = settings]

\* chrome.storage.local.set({ ignoreList: [] })
setIgnoreList(st) == [st EXCEPT !.has = @ \cup {"ignoreList"}]

DigitChar(d) ==
    CASE d = 0 -> "0" [] d = 1 -> "1" [] d = 2 -> "2" [] d = 3 -> "3"
      [] d = 4 -> "4" [] d = 5 -> "5" [] d = 6 -> "6" [] d = 7 -> "7"
      [] d = 8 -> "8" [] d = 9 -> "9"

\* Number.prototype.toString of a non-negative integer
RECURSIVE toString(_)
toString(n) ==
    IF n < 10 THEN DigitChar(n) ELSE toString(n \div 10) \o DigitChar(n % 10)

\* Array.prototype.unshift
unshift(list, x) == <<x>> \o list

\* Array.prototype.slice(0, n)
slice0(list, n) == SubSeq(list, 1, IF Len(list) < n THEN Len(list) ELSE n)

\* saveSubmission without the cap on the list
withSubmission_NoCap(submissions, submission) == unshift(submissions, submission)

\* the list saveSubmission writes back
withSubmission(submissions, submission) ==
    IF Len(submissions) + 1 > MAX_SUBMISSIONS
    THEN slice0(unshift(submissions, submission), MAX_SUBMISSIONS)
    ELSE unshift(submissions, submission)

\* the text saveSubmission passes to setBadgeText
badgeText(submissions) ==
    IF Len(submissions) > 0 THEN toString(Len(submissions)) ELSE ""

\* A call in flight: the function that awaits it, the step of that function,
\* the submission it handles (0: none), the list or the settings it writes,
\* and the storage keys initStorage found missing
Call(fn, step, id, list, settings, missing) ==
    [fn |-> fn, step |-> step, id |-> id, list |-> list, settings |-> settings,
     missing |-> missing]

GetCall(fn, id) == Call(fn, "get", id, <<>>, NoSettings, {})

RESEND_URL == "https://api.resend.com/emails"

\* what the worker has received and answered: messages counts the messages,
\* asked those whose sender awaits a reply (numbered in arrival order),
\* replies the objects passed to sendResponse, erased the submissions that
\* were stored when an answered CLEAR_SUBMISSIONS was written
NoEvents ==
    [messages |-> 0, installed |-> FALSE, startup |-> FALSE, base |-> 0,
     asked |-> 0, replies |-> <<>>, erased |-> {}]

\* safeSendResponse(sendResponse, { success, ... }) to message number to
Reply(to, success) == [to |-> to, success |-> success]

Replied(ev, to, success) == [ev EXCEPT !.replies = Append(@, Reply(to, success))]

\* No worker activity: the state of the worker while only the page runs
WorkerIdle ==
    /\ storage = FreshStorage
    /\ badge = ""
    /\ pending = <<>>
    /\ saves = <<>>
    /\ requests = <<>>
    /\ events = NoEvents

----------------------------------------------------------------------------
(* IgnorePolicy *)

DEFAULT_IGNORE_PATTERNS ==
    <<"login", "signin", "password", "auth", "bank", "credit", "payment">>

\* shouldIgnore looking at the page URL only
shouldIgnore_UrlOnly(url, action) ==
    LET urlStr == toLowerCase(Or(url, ""))
    IN \E i \in 1..Len(DEFAULT_IGNORE_PATTERNS) :
          testI(DEFAULT_IGNORE_PATTERNS[i], urlStr)

shouldIgnore(url, action) ==
    LET urlStr == toLowerCase(Or(url, ""))
        actionStr == toLowerCase(Or(action, ""))
    IN \E i \in 1..Len(DEFAULT_IGNORE_PATTERNS) :
          \/ testI(DEFAULT_IGNORE_PATTERNS[i], urlStr)
          \/ testI(DEFAULT_IGNORE_PATTERNS[i], actionStr)

----------------------------------------------------------------------------
(* Field mappings.                                                          *)
(* A JavaScript object with string keys in insertion order is a sequence   *)
(* of entries with distinct keys.  An entry's value is a string            *)
(* (arr = FALSE, one element in vals) or an array of strings (arr = TRUE). *)
(* src records, for each element of vals, the index in dom of the control  *)
(* it was read from (0: not read from a control); it is history only and   *)
(* no operator reads it to decide anything.                                *)

EmptyFields == <<>>

\* Object.keys(formData).length counting one key too many
keysLength_OneMore(fd) == Len(fd) + 1

keysLength(fd) == Len(fd)

HasKey(fd, k) == \E i \in 1..Len(fd) : fd[i].key = k

IndexOfKey(fd, k) == CHOOSE i \in 1..Len(fd) : fd[i].key = k

\* formData[k] = v   (plain assignment, replaces an existing value)
AssignKey(fd, k, v, s) ==
    LET e == [key |-> k, arr |-> FALSE, vals |-> <<v>>, src |-> <<s>>]
    IN IF HasKey(fd, k) THEN [fd EXCEPT ![IndexOfKey(fd, k)] = e]
       ELSE Append(fd, e)

\* formData[k] as a condition: the key is present with a truthy value
Truthy(fd, k) ==
    HasKey(fd, k) /\ (fd[IndexOfKey(fd, k)].arr \/ ~Falsy(fd[IndexOfKey(fd, k)].vals[1]))

\* the later value replacing the earlier one
AccumulateKey_Overwrite(fd, k, v, s) == AssignKey(fd, k, v, s)

\* if (formData[k]) { Array.isArray(formData[k]) ? push(v) : formData[k] = [old, v] }
\* else formData[k] = v
AccumulateKey(fd, k, v, s) ==
    IF Truthy(fd, k)
    THEN LET i == IndexOfKey(fd, k)
         IN [fd EXCEPT ![i] = [key |-> k, arr |-> TRUE,
                               vals |-> Append(fd[i].vals, v),
                               src |-> Append(fd[i].src, s)]]
    ELSE AssignKey(fd, k, v, s)

\* if (!formData[k]) formData[k] = []; then push(v) or [old, v]
GroupKey(fd, k, v, s) ==
    IF Truthy(fd, k) THEN AccumulateKey(fd, k, v, s)
    ELSE LET e == [key |-> k, arr |-> TRUE, vals |-> <<v>>, src |-> <<s>>]
         IN IF HasKey(fd, k) THEN [fd EXCEPT ![IndexOfKey(fd, k)] = e]
            ELSE Append(fd, e)

\* Object.assign(formData, other)
RECURSIVE ObjectAssign(_, _)
ObjectAssign(fd, other) ==
    IF Len(other) = 0 THEN fd
    ELSE LET e == Head(other)
         IN ObjectAssign(IF HasKey(fd, e.key) THEN [fd EXCEPT ![IndexOfKey(fd, e.key)] = e]
                         ELSE Append(fd, e),
                         Tail(other))

\* the controls whose values appear in a mapping
SourcesOf(fd) == UNION { { fd[i].src[j] : j \in 1..Len(fd[i].src) } : i \in 1..Len(fd) }

----------------------------------------------------------------------------
(* GenericExtractor *)

fileCountText(n) == ToString(n) \o " file(s) selected"

\* extractFormData without the password check
RECURSIVE extractFormDataFrom_NoPasswordSkip(_, _, _)
extractFormDataFrom_NoPasswordSkip(elements, i, formData) ==
    IF i > Len(elements) THEN formData
    ELSE
      LET element == elements[i]
          skip == extractFormDataFrom_NoPasswordSkip(elements, i + 1, formData)
          store(value) ==
              IF value # ""
              THEN extractFormDataFrom_NoPasswordSkip(elements, i + 1,
                                       AccumulateKey(formData, element.name, value, i))
              ELSE skip
      IN IF element.name = "" THEN skip
         ELSE IF element.disabled THEN skip
         ELSE IF element.type = "checkbox" \/ element.type = "radio"
              THEN IF element.checked
                   THEN store(IF element.value # "" THEN element.value ELSE "checked")
                   ELSE skip
         ELSE IF element.type = "file"
              THEN IF element.files > 0 THEN store(fileCountText(element.files))
                   ELSE skip
         ELSE store(element.value)

RECURSIVE extractFormDataFrom(_, _, _)
extractFormDataFrom(elements, i, formData) ==
    IF i > Len(elements) THEN formData
    ELSE
      LET element == elements[i]
          skip == extractFormDataFrom(elements, i + 1, formData)
          store(value) ==
              IF value # ""
              THEN extractFormDataFrom(elements, i + 1,
                                       AccumulateKey(formData, element.name, value, i))
              ELSE skip
      IN IF element.name = "" THEN skip
         ELSE IF element.type = "password" THEN skip
         ELSE IF element.disabled THEN skip
         ELSE IF element.type = "checkbox" \/ element.type = "radio"
              THEN IF element.checked
                   THEN store(IF element.value # "" THEN element.value ELSE "checked")
                   ELSE skip
         ELSE IF element.type = "file"
              THEN IF element.files > 0 THEN store(fileCountText(element.files))
                   ELSE skip
         ELSE store(element.value)

extractFormData(elements) == extractFormDataFrom(elements, 1, EmptyFields)

----------------------------------------------------------------------------
(* Dispatcher *)

ChanStates ==
    { "no_chrome",        \* typeof chrome === 'undefined'
      "no_runtime",       \* chrome.runtime missing
      "no_id",            \* chrome.runtime.id undefined
      "id_throws",        \* reading chrome.runtime.id throws
      "no_sendMessage",   \* chrome.runtime.sendMessage missing
      "send_throws",      \* sendMessage throws synchronously
      "send_rejects",     \* sendMessage returns a promise that rejects
      "send_resolves" }   \* sendMessage returns a promise that resolves

\* which guard of safeSendMessage returns early in channel state c
channelUnavailable(c) ==
    \/ c \in {"no_chrome", "no_runtime"}      \* typeof chrome / !chrome.runtime
    \/ c \in {"no_id", "id_throws"}           \* inner try around chrome.runtime.id
    \/ c = "no_sendMessage"                   \* !chrome.runtime.sendMessage

\* chrome.runtime.sendMessage(message): "throws", or the state of its promise
sendMessage(c) ==
    IF c = "send_throws" THEN "throws"
    ELSE IF c = "send_rejects" THEN "rejected"
    ELSE "resolved"

\* promise.catch(err => ... Promise.resolve()) without the handler
catchRejection_Missing(p) == p

\* promise.catch(err => ... Promise.resolve())
catchRejection(p) == IF p = "rejected" THEN "resolved" ELSE p

\* the body of the outer try block of safeSendMessage in channel state c:
\*   calls   - how many times chrome.runtime.sendMessage was invoked
\*   threw   - whether the block threw
\*   promise - state in which the returned promise settles
safeSendMessageTry(c) ==
    IF channelUnavailable(c)
    THEN [calls |-> 0, threw |-> FALSE, promise |-> "resolved"]
    ELSE IF sendMessage(c) = "throws"
    THEN [calls |-> 1, threw |-> TRUE, promise |-> "none"]
    ELSE [calls |-> 1, threw |-> FALSE, promise |-> catchRejection(sendMessage(c))]

\* safeSendMessage(message): the try block, then catch (error) { return Promise.resolve() }
safeSendMessage(c) ==
    LET r == safeSendMessageTry(c)
    IN IF r.threw THEN [calls |-> r.calls, threw |-> FALSE, promise |-> "resolved"]
       ELSE r

NoSend == [calls |-> 0, threw |-> FALSE, promise |-> "none"]

\* one call safeSendMessage({type: 'FORM_SUBMISSION', data: submission})
Dispatch(submission) ==
    /\ dispatched' = Append(dispatched, submission)
    /\ sendCalls' = sendCalls + safeSendMessage(chan).calls
    /\ lastSend' = safeSendMessage(chan)

NoDispatch == UNCHANGED <<dispatched, sendCalls, lastSend>>

\* a fresh XMLHttpRequest; no wrapped primitive called yet
NoXhr == [method |-> UNDEFINED, url |-> UNDEFINED]
NoCall == [prim |-> "none", threw |-> FALSE, origCalls |-> 0, passed |-> TRUE]

----------------------------------------------------------------------------
(* Host pages and controls *)

Pages ==
    [ shop    |-> [href |-> "https://shop.io/contact", hostname |-> "shop.io",
                   pathname |-> "/contact", title |-> "Shop"],
      login   |-> [href |-> "https://shop.io/Login", hostname |-> "shop.io",
                   pathname |-> "/Login", title |-> ""],
      google  |-> [href |-> "https://docs.google.com/forms/d/e/1/viewform",
                   hostname |-> "docs.google.com",
                   pathname |-> "/forms/d/e/1/viewform", title |-> ""],
      msforms |-> [href |-> "https://forms.office.com/r/1",
                   hostname |-> "forms.office.com", pathname |-> "/r/1",
                   title |-> "Survey"],
      clickup |-> [href |-> "https://forms.clickup.com/f/1",
                   hostname |-> "forms.clickup.com", pathname |-> "/f/1",
                   title |-> ""] ]

\* A control of the document.  label / itemId describe the nearest question
\* container ("" when there is none); prevTag / prevText the previous sibling;
\* wrapPrevText the previous sibling of an enclosing <label>; nextText the next
\* sibling; valueAttr says whether the element has a value attribute.
BaseControl ==
    [tag |-> "INPUT", type |-> "text", name |-> "", value |-> "",
     checked |-> FALSE, disabled |-> FALSE, files |-> 0, valueAttr |-> FALSE,
     ariaLabel |-> "", placeholder |-> "", role |-> "", dataId |-> "",
     label |-> "", itemId |-> "", text |-> "",
     prevTag |-> "", prevText |-> "", wrapPrevText |-> "", nextText |-> ""]

Checkbox(n, v, c) ==
    [BaseControl EXCEPT !.type = "checkbox", !.name = n, !.value = v, !.checked = c]

NativeControls ==
    { [BaseControl EXCEPT !.type = "email", !.name = "email", !.value = "a@b.com"],
      [BaseControl EXCEPT !.type = "password", !.name = "password", !.value = "x"],
      [BaseControl EXCEPT !.type = "password", !.name = "email", !.value = "pw2"],
      Checkbox("interests", "a", TRUE),
      Checkbox("interests", "b", TRUE),
      Checkbox("interests", "", TRUE),
      Checkbox("interests", "c", FALSE),
      [BaseControl EXCEPT !.name = "city", !.value = "Oslo", !.disabled = TRUE],
      [BaseControl EXCEPT !.name = "", !.value = "anon"],
      [BaseControl EXCEPT !.name = "note", !.value = ""],
      [BaseControl EXCEPT !.type = "file", !.name = "cv", !.files = 2] }

EmailField == [BaseControl EXCEPT !.type = "email", !.name = "email", !.value = "a@b.com"]

SeqsUpTo(S, n) == UNION { [1..k -> S] : k \in 0..n }

FormActions == { "", "https://shop.io/save", "https://shop.io/Payment/do" }

----------------------------------------------------------------------------
(* Native submit path *)

Submission(url, action, title, fields, source) ==
    [url |-> url, action |-> action, title |-> title, fields |-> fields,
     source |-> source]

\* document 'submit' listener
captureFormSubmission ==
    LET actionUrl == Or(formAction, page.href)
        pageUrl == page.href
        formData == extractFormData(dom)
    IN /\ Len(dispatched) < MaxDispatched
       /\ IF shouldIgnore(pageUrl, actionUrl) THEN NoDispatch
          ELSE IF keysLength(formData) = 0 THEN NoDispatch
          ELSE Dispatch(Submission(pageUrl, Or(actionUrl, pageUrl),
                                   Or(page.title, "Untitled Page"),
                                   formData, "undefined"))
       /\ lastTrigger' = "submit"
       /\ UNCHANGED <<workerVars, extracted, pageVars, chan, watchVars, timers, chains, userEvents, netVars>>

InitNative ==
    /\ page \in { Pages.shop, Pages.login }
    /\ dom \in SeqsUpTo(NativeControls, MaxControls)
    /\ formAction \in FormActions
    /\ chan \in ChanStates
    /\ dispatched = <<>>
    /\ sendCalls = 0
    /\ lastSend = NoSend
    /\ lastTrigger = "none"
    /\ rendered = TRUE
    /\ pageState = <<>>
    /\ nodes = <<>>
    /\ observers = [prov \in Providers |-> 0]
    /\ intervals = 0
    /\ mutated = FALSE
    /\ timers = <<>>
    /\ chains = <<>>
    /\ userEvents = <<>>
    /\ xhr = NoXhr
    /\ lastCall = NoCall
    /\ netCalls = 0
    /\ extracted = <<>>
    /\ WorkerIdle

NextNative == captureFormSubmission

SpecNative == InitNative /\ [][NextNative]_vars

\* Native submits over a range of page URLs and form actions
IgnoreUrls ==
    { "https://shop.io/contact", "https://shop.io/Login", "https://shop.io/SIGNIN",
      "https://shop.io/reset-Password", "https://shop.io/oAuth",
      "https://shop.io/bank", "https://shop.io/Credit",
      "https://shop.io/Payment/do", "https://shop.io/log/in" }

PageAt(u) ==
    [href |-> u, hostname |-> "shop.io", pathname |-> SubSeq(u, 16, Len(u)),
     title |-> "Shop"]

InitIgnore ==
    /\ page \in { PageAt(u) : u \in IgnoreUrls }
    /\ dom \in { <<>>, <<EmailField>>, <<EmailField, Checkbox("interests", "a", TRUE)>> }
    /\ formAction \in IgnoreUrls \cup {""}
    /\ chan = "send_resolves"
    /\ dispatched = <<>>
    /\ sendCalls = 0
    /\ lastSend = NoSend
    /\ lastTrigger = "none"
    /\ rendered = TRUE
    /\ pageState = <<>>
    /\ nodes = <<>>
    /\ observers = [prov \in Providers |-> 0]
    /\ intervals = 0
    /\ mutated = FALSE
    /\ timers = <<>>
    /\ chains = <<>>
    /\ userEvents = <<>>
    /\ xhr = NoXhr
    /\ lastCall = NoCall
    /\ netCalls = 0
    /\ extracted = <<>>
    /\ WorkerIdle

SpecIgnore == InitIgnore /\ [][NextNative]_vars

\* Native submits of every form of up to MaxControls controls on one page
InitForm ==
    /\ InitNative
    /\ page = Pages.shop
    /\ formAction = ""
    /\ chan = "send_resolves"

SpecForm == InitForm /\ [][NextNative]_vars

----------------------------------------------------------------------------
(* ProviderClassifier *)

isGoogleForm(p) ==
    includes(p.hostname, "docs.google.com") /\ includes(p.pathname, "/forms/")

isMicrosoftForm(p) ==
    LET hostname == toLowerCase(p.hostname)
    IN \/ includes(hostname, "forms.office.com")
       \/ includes(hostname, "forms.microsoft.com")
       \/ includes(hostname, "forms.office365.com")

isClickUpForm(p) ==
    LET hostname == toLowerCase(p.hostname)
    IN includes(hostname, "forms.clickup.com")

isProvider(prov, p) ==
    CASE prov = "google" -> isGoogleForm(p)
      [] prov = "microsoft" -> isMicrosoftForm(p)
      [] prov = "clickup" -> isClickUpForm(p)

----------------------------------------------------------------------------
(* ProviderExtractors.  Each scans the controls in document order; i is the *)
(* 1-based position (index + 1 in the code).                               *)

Positional(prefix, i) == prefix \o " " \o ToString(i)

\* x?.trim() of an optional string
trimOpt(x) == IF x \in {UNDEFINED, NULL} THEN x ELSE trim(x)

\* the forEach body of extractGoogleFormData
googleElement(formData, element, i) ==
    LET questionText == Or(trim(element.label), Positional("Question", i))
        textLike == element.type \in {"text", "email", "number", "date", "time"}
        choice == element.type \in {"checkbox", "radio"}
        named == Or(element.name, questionText)
        fieldName0 ==
            IF textLike THEN Or(Or(element.name, element.ariaLabel), questionText)
            ELSE IF choice THEN NULL
            ELSE IF element.tag \in {"TEXTAREA", "SELECT"} THEN named
            ELSE NULL
        fieldValue ==
            IF textLike THEN element.value
            ELSE IF choice THEN NULL
            ELSE IF element.tag \in {"TEXTAREA", "SELECT"} THEN element.value
            ELSE NULL
        fieldName ==
            IF element.itemId # "" /\ Falsy(fieldName0)
            THEN "question_" \o element.itemId ELSE fieldName0
        key == IF questionText # Positional("Question", i) THEN questionText ELSE fieldName
    IN IF choice /\ element.checked
       THEN GroupKey(formData, named,
                     Or(Or(element.value, element.ariaLabel), "selected"), i)
       ELSE IF ~Falsy(fieldName) /\ fieldValue # NULL /\ fieldValue # ""
       THEN AccumulateKey(formData, key, fieldValue, i)
       ELSE formData

\* the forEach body of extractMicrosoftFormData
microsoftElement(formData, element, i) ==
    LET questionText ==
            Or(Or(Or(trim(element.label), element.ariaLabel), element.placeholder),
               Positional("Question", i))
        textLike == element.type \in {"text", "email", "number", "date", "time", "tel"}
        choice == element.type \in {"checkbox", "radio"}
        identified == Or(Or(element.name, element.dataId), questionText)
        textbox == element.tag = "TEXTAREA" \/ element.role = "textbox"
        combobox == element.tag = "SELECT" \/ element.role = "combobox"
        fieldName ==
            IF textLike THEN identified
            ELSE IF choice THEN NULL
            ELSE IF textbox \/ combobox THEN identified
            ELSE NULL
        fieldValue ==
            IF textLike THEN element.value
            ELSE IF choice THEN NULL
            ELSE IF textbox THEN Or(element.value, element.text)
            ELSE IF combobox THEN element.value
            ELSE NULL
        key == IF questionText # Positional("Question", i) THEN questionText ELSE fieldName
    IN IF choice /\ element.checked
       THEN GroupKey(formData, Or(element.name, questionText),
                     Or(Or(element.value, element.ariaLabel), "selected"), i)
       ELSE IF ~Falsy(fieldName) /\ fieldValue # NULL /\ fieldValue # ""
       THEN AccumulateKey(formData, key, fieldValue, i)
       ELSE formData

\* const label = containerLabel || prev?.tagName === 'LABEL' ? prev : wrap?.prev
\* parses as (containerLabel || prev is LABEL) ? prev : wrap?.prev
clickUpLabelText(element) ==
    IF element.label # "" \/ element.prevTag = "LABEL"
    THEN IF element.prevTag # "" THEN element.prevText ELSE UNDEFINED
    ELSE IF element.wrapPrevText # "" THEN element.wrapPrevText ELSE UNDEFINED

\* the forEach body of extractClickUpFormData
clickUpElement(formData, element, i) ==
    LET questionText ==
            Or(Or(Or(Or(Or(trimOpt(clickUpLabelText(element)), element.ariaLabel),
                        element.placeholder), element.name), element.dataId),
               Positional("Field", i))
        textLike == element.type \in {"text", "email", "number", "tel", "date", "time", "url"}
        choice == element.type \in {"checkbox", "radio"}
        identified == Or(Or(element.name, element.dataId), questionText)
        textbox == element.tag = "TEXTAREA" \/ element.role = "textbox"
        combobox == element.tag = "SELECT" \/ element.role = "combobox"
        fieldName ==
            IF textLike THEN identified
            ELSE IF choice THEN NULL
            ELSE IF textbox \/ combobox THEN identified
            ELSE NULL
        fieldValue ==
            IF textLike THEN element.value
            ELSE IF choice THEN NULL
            ELSE IF textbox THEN Or(element.value, element.text)
            ELSE IF combobox THEN element.value
            ELSE NULL
        key == IF questionText # Positional("Field", i) THEN questionText ELSE fieldName
    IN IF choice /\ element.checked
       THEN GroupKey(formData, Or(element.name, questionText),
                     Or(Or(Or(element.value, element.ariaLabel), trim(element.nextText)),
                        "selected"), i)
       ELSE IF ~Falsy(fieldName) /\ fieldValue # NULL /\ fieldValue # ""
       THEN AccumulateKey(formData, key, fieldValue, i)
       ELSE formData

providerElement(prov, formData, element, i) ==
    CASE prov = "google" -> googleElement(formData, element, i)
      [] prov = "microsoft" -> microsoftElement(formData, element, i)
      [] prov = "clickup" -> clickUpElement(formData, element, i)

RECURSIVE scanElements(_, _, _, _)
scanElements(prov, elements, i, formData) ==
    IF i > Len(elements) THEN formData
    ELSE scanElements(prov, elements, i + 1,
                      providerElement(prov, formData, elements[i], i))

\* extractGoogleFormData / extractMicrosoftFormData / extractClickUpFormData:
\* the DOM scan, then the merge of the provider's in-page state object
\* (window._gfp.response, __MSF_DATACONTEXT.responseData,
\* __CLICKUP_FORM_DATA.formData; state = <<>> when the page exposes none)
extractProviderData(prov, elements, state) ==
    ObjectAssign(scanElements(prov, elements, 1, EmptyFields), state)

extractGoogleFormData(elements, state) == extractProviderData("google", elements, state)
extractMicrosoftFormData(elements, state) == extractProviderData("microsoft", elements, state)
extractClickUpFormData(elements, state) == extractProviderData("clickup", elements, state)

----------------------------------------------------------------------------
(* Last-resort pass of attemptCapture *)

\* 'input[value]:not([type="submit"]):not([type="button"]), textarea[value],
\*  select option:checked'; a select stands for its selected option
salvageMatches(element) ==
    \/ element.tag = "INPUT" /\ element.valueAttr /\ element.type \notin {"submit", "button"}
    \/ element.tag = "TEXTAREA" /\ element.valueAttr
    \/ element.tag = "SELECT"

\* attributes of the matched node: an <option> carries none of the select's
salvageAttr(element, a) == IF element.tag = "SELECT" THEN "" ELSE a

salvageName(prov, element, n) ==
    IF prov = "google"
    THEN Or(Or(Or(salvageAttr(element, element.name), salvageAttr(element, element.ariaLabel)),
               element.label), "Field_" \o ToString(n))
    ELSE Or(Or(Or(Or(salvageAttr(element, element.name), salvageAttr(element, element.dataId)),
                  salvageAttr(element, element.ariaLabel)), element.label),
            "Field_" \o ToString(n))

RECURSIVE salvageFrom(_, _, _, _)
salvageFrom(prov, elements, i, formData) ==
    IF i > Len(elements) THEN formData
    ELSE LET input == elements[i]
             value == Or(input.value, input.text)
             name == salvageName(prov, input, keysLength(formData) + 1)
         IN IF salvageMatches(input) /\ ~Falsy(value) /\ trim(value) # ""
            THEN salvageFrom(prov, elements, i + 1, AssignKey(formData, name, value, i))
            ELSE salvageFrom(prov, elements, i + 1, formData)

salvage(prov, elements) == salvageFrom(prov, elements, 1, EmptyFields)

----------------------------------------------------------------------------
(* SubmitTriggerWatcher: the submit-like nodes of a provider page *)

BaseButton ==
    [tag |-> "DIV", typeAttr |-> "", jsname |-> "", class |-> "", role |-> "",
     ariaLabel |-> "", dataId |-> "", text |-> ""]

GoogleButtons ==
    << [BaseButton EXCEPT !.jsname = "M2UYVd", !.role = "button",
                          !.ariaLabel = "Submit", !.text = "Submit"],
       [BaseButton EXCEPT !.tag = "BUTTON", !.typeAttr = "submit",
                          !.class = "navSubmitButton", !.text = "Send"],
       [BaseButton EXCEPT !.role = "button", !.ariaLabel = "Clear form",
                          !.text = "Clear form"] >>

MicrosoftButtons ==
    << [BaseButton EXCEPT !.tag = "BUTTON", !.typeAttr = "submit",
                          !.class = "ms-Button", !.dataId = "submitButton",
                          !.text = "Submit"],
       [BaseButton EXCEPT !.role = "button", !.ariaLabel = "Submit"],
       [BaseButton EXCEPT !.role = "button", !.ariaLabel = "Back"] >>

ClickUpButtons ==
    << [BaseButton EXCEPT !.tag = "BUTTON", !.typeAttr = "submit",
                          !.class = "cu-submit-button", !.text = "Go"],
       [BaseButton EXCEPT !.class = "cu-form__submit", !.role = "button",
                          !.ariaLabel = "Submit", !.text = "Send it"],
       [BaseButton EXCEPT !.class = "cu-submit-hint", !.text = "Cancel"] >>

ButtonsOf(p) ==
    IF includes(p.hostname, "docs.google.com") THEN GoogleButtons
    ELSE IF isMicrosoftForm(p) THEN MicrosoftButtons
    ELSE IF isClickUpForm(p) THEN ClickUpButtons
    ELSE <<>>

\* button.type: a <button> without a type attribute is a submit button
typeProp(b) ==
    IF b.tag = "BUTTON"
    THEN IF b.typeAttr \in {"button", "reset"} THEN b.typeAttr ELSE "submit"
    ELSE UNDEFINED

submitButtonSelectorsLength(prov) ==
    CASE prov = "google" -> 11 [] prov = "microsoft" -> 8 [] prov = "clickup" -> 10

\* document.querySelectorAll(selector) throws: ':has-text' is not a CSS selector
selectorThrows(prov, k) == prov = "google" /\ k \in {10, 11}

\* node b matches the k-th entry of the provider's submitButtonSelectors
selectorMatches(prov, k, b) ==
    LET submitType == b.tag = "BUTTON" /\ toLowerCase(b.typeAttr) = "submit"
        roleAria(t) == b.role = "button" /\ includes(b.ariaLabel, t)
    IN CASE prov = "google" ->
              CASE k = 1 -> b.jsname = "M2UYVd"
                [] k = 2 -> includes(b.jsname, "Submit")
                [] k = 3 -> includes(b.class, "freebirdFormviewerViewNavigationSubmitButton")
                [] k = 4 -> includes(b.class, "SubmitButton")
                [] k = 5 -> includes(b.class, "submitButton")
                [] k = 6 -> submitType
                [] k = 7 -> roleAria("Submit")
                [] k = 8 -> roleAria("submit")
                [] k = 9 -> roleAria("Submit response")
                [] OTHER -> FALSE
         [] prov = "microsoft" ->
              CASE k = 1 -> submitType
                [] k = 2 -> includes(b.dataId, "submit")
                [] k = 3 -> includes(b.dataId, "Submit")
                [] k = 4 -> includes(b.ariaLabel, "Submit") \/ includes(b.ariaLabel, "submit")
                [] k = 5 -> includes(b.class, "submitButton")
                [] k = 6 -> includes(b.class, "SubmitButton")
                [] k = 7 -> b.tag = "BUTTON" /\ includes(b.class, "ms-Button")
                [] k = 8 -> roleAria("Submit")
                [] OTHER -> FALSE
         [] prov = "clickup" ->
              CASE k = 1 -> submitType
                [] k = 2 -> includes(b.dataId, "submit")
                [] k = 3 -> includes(b.dataId, "Submit")
                [] k = 4 -> includes(b.class, "submit")
                [] k = 5 -> includes(b.class, "Submit")
                [] k = 6 -> includes(b.ariaLabel, "Submit") \/ includes(b.ariaLabel, "submit")
                [] k = 7 -> roleAria("Submit")
                [] k = 8 -> b.tag = "BUTTON" /\ includes(b.class, "button")
                            /\ toLowerCase(b.typeAttr) # "button"
                [] k = 9 -> includes(b.class, "submit-button")
                [] k = 10 -> includes(b.class, "submitButton")
                [] OTHER -> FALSE

\* ClickUp only: the text / type / aria-label test before instrumenting
isSubmitButton(b) ==
    LET buttonText == toLowerCase(b.text)
    IN \/ includes(buttonText, "submit")
       \/ includes(buttonText, "send")
       \/ typeProp(b) = "submit"
       \/ includes(toLowerCase(b.ariaLabel), "submit")

\* by: the provider whose setup attached the listeners ("" while unwatched)
NoNode == [present |-> FALSE, watched |-> FALSE, click |-> 0, press |-> 0, by |-> ""]

\* the body of buttons.forEach without the watched test
instrument_Unconditional(prov, b, node) ==
    IF prov = "clickup" => isSubmitButton(b)
    THEN [node EXCEPT !.watched = TRUE, !.by = prov,
                      !.click = @ + 1,
                      !.press = @ + (IF prov = "microsoft" THEN 0 ELSE 1)]
    ELSE node

\* the body of buttons.forEach adding the listeners without marking the node
instrument_Unmarked(prov, b, node) ==
    IF (prov = "clickup" => isSubmitButton(b)) /\ ~node.watched
    THEN [node EXCEPT !.by = prov,
                      !.click = @ + 1,
                      !.press = @ + (IF prov = "microsoft" THEN 0 ELSE 1)]
    ELSE node

\* the body of buttons.forEach: mark the node, then add the listeners
\* (Microsoft Forms: a click listener only)
instrument(prov, b, node) ==
    IF (prov = "clickup" => isSubmitButton(b)) /\ ~node.watched
    THEN [node EXCEPT !.watched = TRUE, !.by = prov,
                      !.click = @ + 1,
                      !.press = @ + (IF prov = "microsoft" THEN 0 ELSE 1)]
    ELSE node

\* how many selectors of the list return node b (a selector that throws is
\* caught inside the loop and returns nothing)
selectorHits(prov, b) ==
    Cardinality({ k \in 1..submitButtonSelectorsLength(prov) :
                     ~selectorThrows(prov, k) /\ selectorMatches(prov, k, b) })

\* buttons.forEach body run once for each selector that returned the node
RECURSIVE instrumentTimes(_, _, _, _)
instrumentTimes(n, prov, b, node) ==
    IF n = 0 THEN node ELSE instrument(prov, b, instrumentTimes(n - 1, prov, b, node))

\* attachListeners: for each selector, for each matching node in the document.
\* The forEach body touches only the node it is given, so the nested loops
\* are taken node by node.
attachListeners(prov, buttons, ns) ==
    [j \in 1..Len(ns) |->
        IF ns[j].present
        THEN instrumentTimes(selectorHits(prov, buttons[j]), prov, buttons[j], ns[j])
        ELSE ns[j]]

RECURSIVE attachTimes(_, _, _, _)
attachTimes(n, prov, buttons, ns) ==
    IF n = 0 THEN ns
    ELSE attachTimes(n - 1, prov, buttons, attachListeners(prov, buttons, ns))

----------------------------------------------------------------------------
(* Timers.  The queue is ordered by expiry, ties in scheduling order; rem is *)
(* the delay left, in units of 100 ms, when the head of the queue fires.     *)

Timer(delay, kind, prov, chain) ==
    [rem |-> delay, kind |-> kind, prov |-> prov, chain |-> chain, arg |-> <<>>]

\* setTimeout / setInterval: insert after every timer that expires no later
setTimeout(q, t) ==
    LET n == Cardinality({ i \in 1..Len(q) : q[i].rem <= t.rem })
    IN SubSeq(q, 1, n) \o <<t>> \o SubSeq(q, n + 1, Len(q))

\* the queue once its head has fired
Elapse(q) == [i \in 1..(Len(q) - 1) |-> [q[i + 1] EXCEPT !.rem = @ - q[1].rem]]

RECURSIVE setTimeouts(_, _)
setTimeouts(q, ts) ==
    IF Len(ts) = 0 THEN q ELSE setTimeouts(setTimeout(q, Head(ts)), Tail(ts))

\* the captures one click / one mousedown listener schedules
clickCaptures(prov) ==
    CASE prov = "google" -> << Timer(1, "capture", prov, 0), Timer(8, "capture", prov, 0),
                               Timer(15, "capture", prov, 0) >>
      [] prov = "clickup" -> << Timer(1, "capture", prov, 0), Timer(5, "capture", prov, 0),
                                Timer(10, "capture", prov, 0) >>
      [] prov = "microsoft" -> << Timer(5, "capture", prov, 0) >>
      [] OTHER -> << >>

pressCaptures(prov) ==
    CASE prov = "google" -> << Timer(5, "capture", prov, 0) >>
      [] prov = "clickup" -> << Timer(3, "capture", prov, 0) >>
      [] OTHER -> << >>

RECURSIVE Repeat(_, _)
Repeat(ts, n) == IF n = 0 THEN <<>> ELSE ts \o Repeat(ts, n - 1)

----------------------------------------------------------------------------
(* Discovery handlers *)

Engine(ns, obs, ivs, q) == [nodes |-> ns, observers |-> obs, intervals |-> ivs, timers |-> q]

\* setupGoogleFormMonitoring / setupMicrosoftFormMonitoring /
\* setupClickUpFormMonitoring on page p: a new observer, a scan and (Google,
\* ClickUp) a new 1000 ms rescan interval
setupMonitoring(prov, p, e) ==
    IF ~isProvider(prov, p) THEN e
    ELSE Engine(attachListeners(prov, ButtonsOf(p), e.nodes),
                [e.observers EXCEPT ![prov] = @ + 1],
                IF prov = "microsoft" THEN e.intervals ELSE e.intervals + 1,
                IF prov = "microsoft" THEN e.timers
                ELSE setTimeout(e.timers, Timer(10, "rescan", prov, 0)))

\* init(): one provider block: setup now and again after 1000 ms
schedule(e, t) == [e EXCEPT !.timers = setTimeout(@, t)]

initProvider(prov, p, e) ==
    IF ~isProvider(prov, p) THEN e
    ELSE schedule(setupMonitoring(prov, p, e), Timer(10, "setup", prov, 0))

recheckHost(p) ==
    \/ includes(p.hostname, "docs.google.com")
    \/ includes(p.hostname, "forms.office.com")
    \/ includes(p.hostname, "forms.microsoft.com")
    \/ includes(p.hostname, "forms.office365.com")
    \/ includes(p.hostname, "forms.clickup.com")

\* init(): the three provider blocks, in order
initProviders(p, ns) ==
    initProvider("clickup", p,
       initProvider("microsoft", p,
          initProvider("google", p, Engine(ns, [prov \in Providers |-> 0], 0, <<>>))))

\* the engine after init() on page p whose submit-like nodes are ns
init(p, ns) ==
    IF recheckHost(p)
    THEN [schedule(initProviders(p, ns), Timer(20, "recheck", "", 0))
             EXCEPT !.intervals = @ + 1]
    ELSE initProviders(p, ns)

\* document.querySelector(...) of the 2000 ms recheck finds a node
recheckFinds(prov, buttons, ns) ==
    \E j \in 1..Len(buttons) :
       LET b == buttons[j]
           submitType == b.tag = "BUTTON" /\ toLowerCase(b.typeAttr) = "submit"
           roleAria == b.role = "button" /\ includes(b.ariaLabel, "Submit")
       IN /\ ns[j].present
          /\ CASE prov = "google" -> roleAria
               [] prov = "microsoft" -> roleAria \/ submitType
               [] prov = "clickup" -> submitType \/ roleAria
                                      \/ (b.tag = "BUTTON" /\ includes(b.class, "submit"))

recheckProvider(prov, p, e) ==
    IF isProvider(prov, p) /\ recheckFinds(prov, ButtonsOf(p), e.nodes)
    THEN setupMonitoring(prov, p, e) ELSE e

TotalObservers(obs) == obs["google"] + obs["microsoft"] + obs["clickup"]

SetEngine(e) ==
    /\ nodes' = e.nodes
    /\ observers' = e.observers
    /\ intervals' = e.intervals
    /\ timers' = e.timers

Now == Engine(nodes, observers, intervals, Elapse(timers))

\* the setTimeout(setup...Monitoring, 1000) of init fires
FireSetup ==
    /\ ~mutated /\ Len(timers) > 0 /\ Head(timers).kind = "setup"
    /\ TotalObservers(observers) < MaxObservers
    /\ SetEngine(setupMonitoring(Head(timers).prov, page, Now))
    /\ UNCHANGED <<workerVars, extracted, pageVars, sendVars, mutated, chains, userEvents, lastTrigger, netVars>>

\* the 1000 ms interval of a setup fires: if (isXForm()) attachListeners()
FireRescan ==
    /\ ~mutated /\ Len(timers) > 0 /\ Head(timers).kind = "rescan"
    /\ LET prov == Head(timers).prov
       IN /\ nodes' = IF isProvider(prov, page)
                      THEN attachListeners(prov, ButtonsOf(page), nodes) ELSE nodes
          /\ timers' = setTimeout(Elapse(timers), Timer(10, "rescan", prov, 0))
    /\ UNCHANGED <<workerVars, extracted, pageVars, sendVars, observers, intervals, mutated, chains,
                   userEvents, lastTrigger, netVars>>

\* the 2000 ms interval of init fires
FireRecheck ==
    /\ ~mutated /\ Len(timers) > 0 /\ Head(timers).kind = "recheck"
    /\ TotalObservers(observers) < MaxObservers
    /\ SetEngine(schedule(recheckProvider("clickup", page,
                              recheckProvider("microsoft", page,
                                 recheckProvider("google", page, Now))),
                           Timer(20, "recheck", "", 0)))
    /\ UNCHANGED <<workerVars, extracted, pageVars, sendVars, mutated, chains, userEvents, lastTrigger, netVars>>

\* the MutationObserver callbacks run, before any other task
ObserverCallback ==
    /\ mutated
    /\ mutated' = FALSE
    /\ nodes' = attachTimes(observers["clickup"], "clickup", ButtonsOf(page),
                   attachTimes(observers["microsoft"], "microsoft", ButtonsOf(page),
                      attachTimes(observers["google"], "google", ButtonsOf(page), nodes)))
    /\ UNCHANGED <<workerVars, extracted, pageVars, sendVars, observers, intervals, timers, chains,
                   userEvents, lastTrigger, netVars>>

\* the page inserts a submit-like node
AddButton ==
    /\ ~mutated
    /\ \E j \in 1..Len(nodes) :
          /\ ~nodes[j].present
          /\ nodes' = [nodes EXCEPT ![j].present = TRUE]
    /\ mutated' = (TotalObservers(observers) > 0)
    /\ UNCHANGED <<workerVars, extracted, pageVars, sendVars, observers, intervals, timers, chains,
                   userEvents, lastTrigger, netVars>>

\* the clicks and presses in the event log
Interactions(log) == Cardinality({ i \in 1..Len(log) : log[i][1] # "render" })

\* the page renders its controls
Render ==
    /\ ~mutated /\ ~rendered
    /\ rendered' = TRUE
    /\ mutated' = (TotalObservers(observers) > 0)
    /\ userEvents' = Append(userEvents, <<"render", 0>>)
    /\ UNCHANGED <<workerVars, extracted, page, dom, pageState, formAction, sendVars, nodes, observers,
                   intervals, timers, chains, lastTrigger, netVars>>

\* the user presses the mouse button on node j: every mousedown listener runs
Mousedown ==
    /\ ~mutated /\ Interactions(userEvents) < MaxUserEvents
    /\ \E j \in 1..Len(nodes) :
          /\ nodes[j].present
          /\ timers' = setTimeouts(timers, Repeat(pressCaptures(nodes[j].by), nodes[j].press))
          /\ userEvents' = Append(userEvents, <<"mousedown", j>>)
    /\ lastTrigger' = "mousedown"
    /\ UNCHANGED <<workerVars, extracted, pageVars, sendVars, watchVars, chains, netVars>>

\* the user clicks node j: every click listener runs
Click ==
    /\ ~mutated /\ Interactions(userEvents) < MaxUserEvents
    /\ \E j \in 1..Len(nodes) :
          /\ nodes[j].present
          /\ timers' = setTimeouts(timers, Repeat(clickCaptures(nodes[j].by), nodes[j].click))
          /\ userEvents' = Append(userEvents, <<"click", j>>)
    /\ lastTrigger' = "click"
    /\ UNCHANGED <<workerVars, extracted, pageVars, sendVars, watchVars, chains, netVars>>

----------------------------------------------------------------------------
(* RetryScheduler: capture chains *)

maxAttempts == 3

\* what document.querySelectorAll sees
View == IF rendered THEN dom ELSE <<>>

\* attemptCapture after the extraction, with the salvage pass run whenever
\* the attempts are used up
attemptOutcome_SalvageAlways(prov, attempts, elements, formData) ==
    LET retry == keysLength(formData) = 0 /\ attempts < maxAttempts
        salvaged == ~retry /\ (keysLength(formData) = 0 \/ attempts >= maxAttempts)
    IN [attempts |-> attempts, extracted |-> formData, retry |-> retry,
        salvaged |-> salvaged,
        final |-> IF retry THEN EmptyFields
                  ELSE IF salvaged THEN salvage(prov, elements) ELSE formData]

\* attemptCapture retrying on every empty extraction, without a ceiling
attemptOutcome_RetryAlways(prov, attempts, elements, formData) ==
    LET retry == keysLength(formData) = 0
    IN [attempts |-> attempts, extracted |-> formData, retry |-> retry,
        salvaged |-> FALSE,
        final |-> IF retry THEN EmptyFields ELSE formData]

\* attemptCapture after the extraction returned formData on attempt number
\* attempts: retry while empty and attempts remain; else salvage if still
\* empty; final is the mapping to send (empty: nothing is sent)
attemptOutcome(prov, attempts, elements, formData) ==
    LET retry == keysLength(formData) = 0 /\ attempts < maxAttempts
        salvaged == ~retry /\ keysLength(formData) = 0
    IN [attempts |-> attempts, extracted |-> formData, retry |-> retry,
        salvaged |-> salvaged,
        final |-> IF retry THEN EmptyFields
                  ELSE IF salvaged THEN salvage(prov, elements) ELSE formData]

\* one run of attemptCapture (Google, ClickUp) after attempts0 earlier runs
attemptCapture(prov, attempts0, elements, state) ==
    attemptOutcome(prov, attempts0 + 1, elements,
                   extractProviderData(prov, elements, state))

\* captureMicrosoftFormSubmission: a single extraction
singleOutcome(formData) ==
    [attempts |-> 1, extracted |-> formData, retry |-> FALSE,
     salvaged |-> FALSE, final |-> formData]

captureMicrosoft(elements, state) ==
    singleOutcome(extractMicrosoftFormData(elements, state))

providerTitle(prov) ==
    CASE prov = "google" -> "Google Form"
      [] prov = "microsoft" -> "Microsoft Form"
      [] prov = "clickup" -> "ClickUp Form"

providerSource(prov) ==
    CASE prov = "google" -> "google-forms"
      [] prov = "microsoft" -> "microsoft-forms"
      [] prov = "clickup" -> "clickup-forms"

NewChain(prov) ==
    [prov |-> prov, attempts |-> 0, results |-> <<>>, salvaged |-> FALSE, sent |-> <<>>]

\* chain id (record c) once an attempt returned r: record it, schedule the
\* retry, send the final mapping
Attempted(id, c, r) ==
    LET send == keysLength(r.final) > 0
        c1 == [c EXCEPT !.attempts = r.attempts,
                        !.results = Append(@, r.extracted),
                        !.salvaged = r.salvaged,
                        !.sent = IF send THEN Append(@, r.final) ELSE @]
    IN /\ chains' = IF id > Len(chains) THEN Append(chains, c1)
                    ELSE [chains EXCEPT ![id] = c1]
       /\ timers' = IF r.retry
                    THEN setTimeout(Elapse(timers), Timer(3, "attempt", c.prov, id))
                    ELSE Elapse(timers)
       /\ IF send
          THEN Dispatch(Submission(page.href, page.href,
                                   Or(page.title, providerTitle(c.prov)),
                                   r.final, providerSource(c.prov)))
          ELSE NoDispatch

\* one attempt of chain id (record c), run as the head timer fires
RunAttempt(id, c) ==
    Attempted(id, c, IF c.prov = "microsoft" THEN captureMicrosoft(View, pageState)
                     ELSE attemptCapture(c.prov, c.attempts, View, pageState))

\* a scheduled captureGoogleFormSubmission / captureMicrosoftFormSubmission /
\* captureClickUpFormSubmission runs
FireCapture ==
    /\ ~mutated /\ Len(timers) > 0 /\ Head(timers).kind = "capture"
    /\ IF isProvider(Head(timers).prov, page)
       THEN RunAttempt(Len(chains) + 1, NewChain(Head(timers).prov))
       ELSE /\ timers' = Elapse(timers)
            /\ NoDispatch
            /\ UNCHANGED chains
    /\ UNCHANGED <<workerVars, extracted, pageVars, chan, watchVars, userEvents, lastTrigger, netVars>>

\* a retry setTimeout(attemptCapture, 300) fires
FireAttempt ==
    /\ ~mutated /\ Len(timers) > 0 /\ Head(timers).kind = "attempt"
    /\ RunAttempt(Head(timers).chain, chains[Head(timers).chain])
    /\ UNCHANGED <<workerVars, extracted, pageVars, chan, watchVars, userEvents, lastTrigger, netVars>>

----------------------------------------------------------------------------
(* Provider pages *)

NameQ ==
    [BaseControl EXCEPT !.label = "Name", !.itemId = "i1", !.value = "Ann",
                        !.prevTag = "LABEL", !.prevText = "Name"]
SecretQ ==
    [BaseControl EXCEPT !.type = "password", !.name = "pw", !.value = "s3cret",
                        !.valueAttr = TRUE]
BlankQ == [BaseControl EXCEPT !.name = "q3"]
AgreeQ ==
    [BaseControl EXCEPT !.type = "checkbox", !.value = "yes", !.checked = TRUE,
                        !.valueAttr = TRUE, !.label = " Agree ", !.itemId = "i4"]
InPageState == << [key |-> "q9", arr |-> FALSE, vals |-> <<"Zed">>, src |-> <<0>>] >>

\* what a provider page shows once rendered, and the state object it exposes
Scenes ==
    { [dom |-> <<>>, state |-> <<>>],
      [dom |-> <<NameQ>>, state |-> <<>>],
      [dom |-> <<BlankQ, SecretQ>>, state |-> <<>>],
      [dom |-> <<NameQ, AgreeQ>>, state |-> <<>>],
      [dom |-> <<BlankQ>>, state |-> InPageState] }

ProviderPages == { Pages.google, Pages.msforms, Pages.clickup }

\* the nodes of page p of which those in S are in the document
NodesOf(p, S) == [j \in 1..Len(ButtonsOf(p)) |-> [NoNode EXCEPT !.present = j \in S]]

\* the state init() leaves on page p with the nodes in S present
EngineIs(e) ==
    /\ nodes = e.nodes
    /\ observers = e.observers
    /\ intervals = e.intervals
    /\ timers = e.timers

InitEngine(p, S) ==
    /\ EngineIs(init(p, NodesOf(p, S)))
    /\ mutated = FALSE
    /\ chains = <<>>
    /\ userEvents = <<>>
    /\ lastTrigger = "none"
    /\ formAction = ""
    /\ dispatched = <<>>
    /\ sendCalls = 0
    /\ lastSend = NoSend
    /\ xhr = NoXhr
    /\ lastCall = NoCall
    /\ netCalls = 0

\* Capture chains: a provider page whose submit control is in the document at
\* load and whose controls render at some later time
InitChain ==
    /\ page \in ProviderPages
    /\ \E sc \in Scenes : dom = sc.dom /\ pageState = sc.state
    /\ rendered = FALSE
    /\ chan = "send_resolves"
    /\ InitEngine(page, {1})
    /\ extracted = <<>>
    /\ WorkerIdle

NextChain ==
    \/ FireSetup \/ FireRescan \/ FireRecheck \/ ObserverCallback
    \/ Render \/ Mousedown \/ Click
    \/ FireCapture \/ FireAttempt

SpecChain == InitChain /\ [][NextChain]_vars

\* window.location after the page's script called history.pushState: same
\* host, another path
Navigated(p) ==
    [p EXCEPT !.pathname = "/thanks", !.href = "https://" \o p.hostname \o "/thanks"]

\* single-page-app navigation; isGoogleForm / isMicrosoftForm / isClickUpForm
\* read window.location anew at each call
Navigate ==
    /\ page.pathname # "/thanks"
    /\ page' = Navigated(page)
    /\ UNCHANGED <<workerVars, extracted, dom, rendered, pageState, formAction, sendVars,
                   watchVars, runVars, netVars>>

\* Capture chains on a Google Forms page that navigates within its origin
InitSpa ==
    /\ InitChain
    /\ page = Pages.google

NextSpa ==
    \/ FireSetup \/ FireRescan \/ FireRecheck \/ ObserverCallback
    \/ Render \/ Mousedown \/ Click
    \/ FireCapture \/ FireAttempt
    \/ Navigate

SpecSpa == InitSpa /\ [][NextSpa]_vars

\* Discovery: a provider page that inserts its submit-like nodes over time
InitWatch ==
    /\ page \in ProviderPages
    /\ dom = <<>>
    /\ pageState = <<>>
    /\ rendered = TRUE
    /\ chan = "send_resolves"
    /\ \E S \in SUBSET (1..3) : InitEngine(page, S)
    /\ extracted = <<>>
    /\ WorkerIdle

NextWatch ==
    \/ FireSetup \/ FireRescan \/ FireRecheck \/ ObserverCallback
    \/ AddButton

SpecWatch == InitWatch /\ [][NextWatch]_vars

\* Classification: the engine loaded on pages of several hosts and paths,
\* among them hosts that only contain a provider's host name
Hostnames ==
    { "docs.google.com", "docs.google.com.evil.io",
      "forms.office.com", "forms.microsoft.com", "forms.office365.com",
      "forms.office.com.evil.io", "forms.clickup.com", "shop.io",
      "docs.google.com.forms.clickup.com.evil.io" }

Pathnames == { "/forms/d/e/1/viewform", "/document/d/1" }

PageOn(hostname, pathname) ==
    [href |-> "https://" \o hostname \o pathname, hostname |-> hostname,
     pathname |-> pathname, title |-> ""]

InitClassify ==
    /\ \E h \in Hostnames, pn \in Pathnames : page = PageOn(h, pn)
    /\ dom = <<>>
    /\ pageState = <<>>
    /\ rendered = TRUE
    /\ chan = "send_resolves"
    /\ \E S \in { {}, {1} } : InitEngine(page, S)
    /\ extracted = <<>>
    /\ WorkerIdle

NextClassify ==
    \/ FireSetup \/ FireRescan \/ FireRecheck \/ ObserverCallback
    \/ AddButton

SpecClassify == InitClassify /\ [][NextClassify]_vars

----------------------------------------------------------------------------
(* NetworkInterceptor *)

\* a truthy method value that is not a string (a number, an object with toString)
NONSTRING == "(object)"

isPostOrPut(method) == toUpperCase(method) = "POST" \/ toUpperCase(method) = "PUT"

isGoogleFormsEndpoint(urlStr) ==
    \/ includes(urlStr, "forms/d/e/")
    \/ includes(urlStr, "forms/u/0/d/e/")
    \/ includes(urlStr, "/formResponse")

isMicrosoftFormsEndpoint(urlStr) ==
    \/ includes(urlStr, "forms.office.com")
    \/ includes(urlStr, "forms.microsoft.com")
    \/ includes(urlStr, "forms.office365.com")
    \/ includes(urlStr, "/api/form/")
    \/ includes(urlStr, "/api/Response")
    \/ includes(urlStr, "/SubmitForm")

isClickUpFormsEndpoint(urlStr) ==
    \/ includes(urlStr, "forms.clickup.com")
    \/ includes(urlStr, "/api/form/")
    \/ includes(urlStr, "/form/submit")
    \/ includes(urlStr, "/submit-form")

\* Request bodies.  A body is its kind and its key/value pairs in order:
\*   "none"      no body (undefined, null, "")
\*   "formdata"  a FormData object
\*   "json"      a string that JSON.parse turns into an object with these pairs
\*   "urlenc"    a string JSON.parse rejects; URLSearchParams yields these pairs
\*   "blob"      any other truthy body
Body(kind, pairs) == [kind |-> kind, pairs |-> pairs]

\* The keys request bodies use.  A field read from the body pair with key
\* BodyKeys[n] has origin -n in its src (control origins are positive).
BodyKeys ==
    << "email", "password", "userPassword", "Password", "entry.111", "entry",
       "entry.password", "entry_password", "note", "entry.222" >>

KeyOrigin(k) == 0 - (CHOOSE n \in 1..Len(BodyKeys) : BodyKeys[n] = k)

hasPassword(key) == includes(toLowerCase(key), "password")

\* key.replace(/^entry\.?/, '')
stripEntry(key) ==
    IF startsWith(key, "entry.") THEN SubSeq(key, 7, Len(key))
    ELSE IF startsWith(key, "entry") THEN SubSeq(key, 6, Len(key))
    ELSE key

\* the key left as it is
stripEntryDot_Keep(key) == key

\* key.replace(/^entry\./, '')
stripEntryDot(key) ==
    IF startsWith(key, "entry.") THEN SubSeq(key, 7, Len(key)) ELSE key

\* formData[key] = value for a body pair
PutPair(formData, key, pair) == AssignKey(formData, key, pair[2], KeyOrigin(pair[1]))

\* body.forEach((value, key) => { skip passwords; formData[key] = value })
RECURSIVE parseFormData(_, _)
parseFormData(pairs, formData) ==
    IF Len(pairs) = 0 THEN formData
    ELSE LET key == Head(pairs)[1]
         IN parseFormData(Tail(pairs),
               IF hasPassword(key) THEN formData ELSE PutPair(formData, key, Head(pairs)))

\* Object.keys(parsed).forEach: entry. / entry_ keys are cleaned and stored
\* first; only the other keys are tested for "password"
RECURSIVE parseJsonEntries(_, _)
parseJsonEntries(pairs, formData) ==
    IF Len(pairs) = 0 THEN formData
    ELSE LET key == Head(pairs)[1]
         IN parseJsonEntries(Tail(pairs),
               IF startsWith(key, "entry.") \/ startsWith(key, "entry_")
               THEN PutPair(formData, stripEntry(key), Head(pairs))
               ELSE IF ~hasPassword(key) THEN PutPair(formData, key, Head(pairs))
               ELSE formData)

\* Object.keys(parsed).forEach(key => { if no "password": formData[key] = ... })
RECURSIVE parseJsonPlain(_, _)
parseJsonPlain(pairs, formData) ==
    IF Len(pairs) = 0 THEN formData
    ELSE LET key == Head(pairs)[1]
         IN parseJsonPlain(Tail(pairs),
               IF ~hasPassword(key) THEN PutPair(formData, key, Head(pairs))
               ELSE formData)

\* params.forEach: the catch branch of JSON.parse
RECURSIVE parseUrlEncoded(_, _)
parseUrlEncoded(pairs, formData) ==
    IF Len(pairs) = 0 THEN formData
    ELSE LET key == Head(pairs)[1]
         IN parseUrlEncoded(Tail(pairs),
               IF ~hasPassword(key)
               THEN PutPair(formData, stripEntryDot(key), Head(pairs))
               ELSE formData)

\* parsed['entry.'] || parsed['entry']
hasEntryMarker(pairs) ==
    \E n \in 1..Len(pairs) : pairs[n][1] \in {"entry.", "entry"} /\ ~Falsy(pairs[n][2])

\* the body parsing of the wrapped fetch
parseFetchBody(body, isGoogle) ==
    CASE body.kind = "formdata" -> parseFormData(body.pairs, EmptyFields)
      [] body.kind = "json" ->
            IF isGoogle /\ hasEntryMarker(body.pairs)
            THEN parseJsonEntries(body.pairs, EmptyFields)
            ELSE parseJsonPlain(body.pairs, EmptyFields)
      [] body.kind = "urlenc" -> parseUrlEncoded(body.pairs, EmptyFields)
      [] OTHER -> EmptyFields

\* the body parsing of the wrapped XMLHttpRequest.prototype.send
parseXhrBody(body) ==
    CASE body.kind = "formdata" -> parseFormData(body.pairs, EmptyFields)
      [] body.kind = "json" -> parseJsonEntries(body.pairs, EmptyFields)
      [] body.kind = "urlenc" -> parseUrlEncoded(body.pairs, EmptyFields)
      [] OTHER -> EmptyFields

\* the DOM captures the wrapped fetch schedules for a classified URL
fetchCaptures(urlStr) ==
    (IF isGoogleFormsEndpoint(urlStr)
     THEN << Timer(2, "capture", "google", 0), Timer(8, "capture", "google", 0),
             Timer(15, "capture", "google", 0) >> ELSE << >>)
    \o (IF isMicrosoftFormsEndpoint(urlStr)
        THEN << Timer(3, "capture", "microsoft", 0) >> ELSE << >>)
    \o (IF isClickUpFormsEndpoint(urlStr)
        THEN << Timer(2, "capture", "clickup", 0), Timer(8, "capture", "clickup", 0),
                Timer(15, "capture", "clickup", 0) >> ELSE << >>)

\* the source of the wrapped fetch with another label for unmatched URLs
fetchSource_Generic(urlStr) ==
    IF isGoogleFormsEndpoint(urlStr) THEN "google-forms"
    ELSE IF isMicrosoftFormsEndpoint(urlStr) THEN "microsoft-forms"
    ELSE IF isClickUpFormsEndpoint(urlStr) THEN "clickup-forms"
    ELSE "fetch-generic"

fetchSource(urlStr) ==
    IF isGoogleFormsEndpoint(urlStr) THEN "google-forms"
    ELSE IF isMicrosoftFormsEndpoint(urlStr) THEN "microsoft-forms"
    ELSE IF isClickUpFormsEndpoint(urlStr) THEN "clickup-forms"
    ELSE "fetch"

xhrSource(urlStr) ==
    IF isMicrosoftFormsEndpoint(urlStr) THEN "microsoft-forms"
    ELSE IF isClickUpFormsEndpoint(urlStr) THEN "clickup-forms"
    ELSE "google-forms"

xhrTitle(urlStr) ==
    IF isMicrosoftFormsEndpoint(urlStr) THEN "Microsoft Form"
    ELSE IF isClickUpFormsEndpoint(urlStr) THEN "ClickUp Form"
    ELSE "Google Form"

\* the arguments the wrappers hand to the originals
fetchApplyArgs(args) == args
openApplyArgs(args) == <<args[1], args[2]>> \o SubSeq(args, 3, Len(args))
sendApplyArgs(args) == <<args[1]>>

Called(prim, args, applied) ==
    [prim |-> prim, threw |-> FALSE, origCalls |-> 1, passed |-> applied = args]
Threw(prim) == [prim |-> prim, threw |-> TRUE, origCalls |-> 0, passed |-> FALSE]

\* the page calls window.fetch(url, options)
FetchCall(url, options) ==
    LET guardThrows == ~Falsy(options.method) /\ options.method = NONSTRING
        observed == /\ ~Falsy(options.method) /\ ~guardThrows
                    /\ isPostOrPut(options.method)
                    /\ options.body.kind # "none"
        tryThrows == url = UNDEFINED          \* url.toString() inside the try
        formData == parseFetchBody(options.body, isGoogleFormsEndpoint(url))
    IN /\ ~mutated /\ netCalls < MaxNetCalls
       /\ netCalls' = netCalls + 1
       /\ IF guardThrows
          THEN /\ lastCall' = Threw("fetch")
               /\ NoDispatch
               /\ UNCHANGED timers
          ELSE /\ lastCall' = Called("fetch", <<url, options>>, fetchApplyArgs(<<url, options>>))
               /\ IF observed /\ ~tryThrows
                  THEN /\ timers' = setTimeouts(timers, fetchCaptures(url))
                       /\ IF keysLength(formData) > 0
                          THEN Dispatch(Submission(url, url, Or(page.title, "Untitled Page"),
                                                   formData, fetchSource(url)))
                          ELSE NoDispatch
                  ELSE NoDispatch /\ UNCHANGED timers
       /\ UNCHANGED <<workerVars, extracted, pageVars, chan, watchVars, chains, userEvents, lastTrigger, xhr>>

\* the page calls xhr.open(method, url)
XhrOpen(method, url) ==
    /\ ~mutated /\ xhr = NoXhr
    /\ xhr' = [method |-> method, url |-> url]
    /\ lastCall' = Called("open", <<method, url>>, openApplyArgs(<<method, url>>))
    /\ UNCHANGED <<workerVars, extracted, pageVars, sendVars, watchVars, runVars, netCalls>>

\* the page calls xhr.send(data)
XhrSend(data) ==
    LET guardThrows == ~Falsy(xhr.method) /\ xhr.method = NONSTRING
        observed == /\ ~Falsy(xhr.method) /\ ~guardThrows
                    /\ isPostOrPut(xhr.method)
                    /\ ~Falsy(xhr.url)
        urlStr == xhr.url
        classified == \/ isGoogleFormsEndpoint(urlStr)
                      \/ isMicrosoftFormsEndpoint(urlStr)
                      \/ isClickUpFormsEndpoint(urlStr)
        formData == parseXhrBody(data)
        q1 == IF keysLength(formData) > 0
              THEN setTimeout(timers, [Timer(2, "netsend", "", 0) EXCEPT
                                         !.arg = [fields |-> formData, action |-> urlStr]])
              ELSE timers
        q2 == IF isMicrosoftFormsEndpoint(urlStr)
              THEN setTimeout(q1, Timer(3, "capture", "microsoft", 0)) ELSE q1
        q3 == IF isClickUpFormsEndpoint(urlStr)
              THEN setTimeout(q2, Timer(3, "capture", "clickup", 0)) ELSE q2
    IN /\ ~mutated /\ netCalls < MaxNetCalls
       /\ netCalls' = netCalls + 1
       /\ IF guardThrows
          THEN lastCall' = Threw("send") /\ UNCHANGED timers
          ELSE /\ lastCall' = Called("send", <<data>>, sendApplyArgs(<<data>>))
               /\ timers' = IF observed /\ classified /\ data.kind # "none" THEN q3 ELSE timers
       /\ UNCHANGED <<workerVars, extracted, pageVars, sendVars, watchVars, chains, userEvents, lastTrigger, xhr>>

\* the 200 ms timer of the wrapped send fires: build and send the Submission
FireNetSend ==
    /\ ~mutated /\ Len(timers) > 0 /\ Head(timers).kind = "netsend"
    /\ LET a == Head(timers).arg
       IN Dispatch(Submission(page.href, a.action, Or(page.title, xhrTitle(a.action)),
                              a.fields, xhrSource(a.action)))
    /\ timers' = Elapse(timers)
    /\ UNCHANGED <<workerVars, extracted, pageVars, chan, watchVars, chains, userEvents, lastTrigger, netVars>>

Methods == { "POST", "put", "GET", UNDEFINED, NONSTRING }

NetUrls ==
    { "https://shop.io/api/contact",
      "https://shop.io/api/login",
      "https://docs.google.com/forms/d/e/1/formResponse",
      "https://forms.clickup.com/f/submit",
      "https://x.io/formResponse",
      UNDEFINED }

Bodies ==
    { Body("none", <<>>),
      Body("blob", <<>>),
      Body("urlenc", << <<"entry.111", "Foo">> >>),
      Body("urlenc", << <<"note", "">> >>),
      Body("json", << <<"entry", "1">>, <<"entry.password", "x">> >>),
      Body("json", << <<"email", "a@b.com">>, <<"userPassword", "x">> >>),
      Body("formdata", << <<"email", "a@b.com">>, <<"Password", "x">> >>) }

\* (method, url) pairs: every URL as a POST, and every method against one URL
Requests ==
    { <<"POST", u>> : u \in NetUrls }
    \cup { <<m, "https://docs.google.com/forms/d/e/1/formResponse">> : m \in Methods }

Fetch ==
    \E r \in Requests, b \in Bodies : FetchCall(r[2], [method |-> r[1], body |-> b])
Open == \E r \in Requests : XhrOpen(r[1], r[2])
Send == \E data \in Bodies : XhrSend(data)

\* Network interception on a plain page and on provider pages
InitNet ==
    /\ \/ page = Pages.shop /\ dom = <<>>
       \/ page = Pages.google /\ dom \in { <<>>, <<NameQ>> }
       \/ page = Pages.clickup /\ dom = <<>>
    /\ pageState = <<>>
    /\ rendered = TRUE
    /\ chan = "send_resolves"
    /\ InitEngine(page, {1})
    /\ extracted = <<>>
    /\ WorkerIdle

NextFetch ==
    \/ Fetch
    \/ FireCapture \/ FireAttempt
    \/ FireSetup \/ FireRescan \/ FireRecheck

SpecFetch == InitNet /\ [][NextFetch]_vars

NextXhr ==
    \/ Open \/ Send \/ FireNetSend
    \/ FireCapture \/ FireAttempt
    \/ FireSetup \/ FireRescan \/ FireRecheck

SpecXhr == InitNet /\ [][NextXhr]_vars

\* Every dispatch path on one page: native submit, wrapped fetch, and the
\* capture chains the wrapped fetch schedules
InitAny ==
    /\ \/ page = Pages.shop /\ dom = <<EmailField>>
       \/ page = Pages.google /\ dom = <<NameQ>>
    /\ pageState = <<>>
    /\ rendered = TRUE
    /\ chan = "send_resolves"
    /\ InitEngine(page, {1})
    /\ extracted = <<>>
    /\ WorkerIdle

\* (the controls are rendered, so no capture schedules a retry)
NextAny ==
    \/ captureFormSubmission
    \/ Fetch
    \/ FireCapture
    \/ FireSetup \/ FireRescan \/ FireRecheck

SpecAny == InitAny /\ [][NextAny]_vars

\* All four trigger paths: native submit, wrapped fetch, wrapped
\* XMLHttpRequest, and the provider capture a network call schedules
\* (on a page of no provider: the capture finds the page unclassified)
InitTriggers ==
    /\ page = Pages.shop
    /\ dom \in { <<>>, <<EmailField>> }
    /\ pageState = <<>>
    /\ rendered = TRUE
    /\ chan = "send_resolves"
    /\ InitEngine(page, {1})
    /\ extracted = <<>>
    /\ WorkerIdle

\* POST calls of both primitives to a plain endpoint and to one endpoint of
\* each provider, with no body, an unparseable body and parseable bodies
PostUrls ==
    { "https://shop.io/api/contact",
      "https://docs.google.com/forms/d/e/1/formResponse",
      "https://forms.office.com/formapi/api/Response",
      "https://forms.office.com/formResponse",
      "https://forms.clickup.com/f/submit" }

PostBodies ==
    { Body("none", <<>>),
      Body("blob", <<>>),
      Body("urlenc", << <<"entry.111", "Foo">> >>),
      Body("json", << <<"entry.222", "Bar">>, <<"email", "a@b.com">> >>) }

FetchPost ==
    \E u \in PostUrls, b \in PostBodies : FetchCall(u, [method |-> "POST", body |-> b])
OpenPost == \E u \in PostUrls : XhrOpen("POST", u)
SendPost == \E data \in PostBodies : XhrSend(data)

NextTriggers ==
    \/ captureFormSubmission
    \/ FetchPost
    \/ OpenPost \/ SendPost \/ FireNetSend
    \/ FireCapture

SpecTriggers == InitTriggers /\ [][NextTriggers]_vars

----------------------------------------------------------------------------
(* Direct invocation of the extractors.                                     *)
(* An extractor reads its elements and the in-page state and writes only   *)
(* to the mapping it returns.                                              *)

Extractors ==
    {"extractFormData", "extractGoogleFormData", "extractMicrosoftFormData",
     "extractClickUpFormData"}

\* the elements as an extractor that consumes the values it reads leaves them
elementsAfter_Consumed(elements) ==
    [i \in 1..Len(elements) |-> [elements[i] EXCEPT !.value = "", !.checked = FALSE]]

\* the elements as an extractor call leaves them: no extractor assigns to an
\* element or to one of its attributes
elementsAfter(elements) == elements

applyExtractor(fn, elements, state) ==
    CASE fn = "extractFormData" -> extractFormData(elements)
      [] fn = "extractGoogleFormData" -> extractGoogleFormData(elements, state)
      [] fn = "extractMicrosoftFormData" -> extractMicrosoftFormData(elements, state)
      [] OTHER -> extractClickUpFormData(elements, state)

Extract ==
    /\ Len(extracted) < MaxExtractions
    /\ \E fn \in Extractors :
          extracted' = Append(extracted,
              [fn |-> fn, fields |-> applyExtractor(fn, dom, pageState)])
    /\ dom' = elementsAfter(dom)
    /\ UNCHANGED <<workerVars, page, rendered, pageState, formAction, sendVars,
                   watchVars, runVars, netVars>>

\* A rendered page of either kind with the engine installed
InitExtract ==
    /\ \/ /\ page = Pages.shop
          /\ dom \in SeqsUpTo(NativeControls, MaxControls)
          /\ pageState = <<>>
       \/ /\ page \in ProviderPages
          /\ \E sc \in Scenes : dom = sc.dom /\ pageState = sc.state
    /\ rendered = TRUE
    /\ chan = "send_resolves"
    /\ InitEngine(page, {1})
    /\ extracted = <<>>
    /\ WorkerIdle

NextExtract == Extract

SpecExtract == InitExtract /\ [][NextExtract]_vars

\* Field keys: a provider page showing one filled text control, with or
\* without a name, an identifier attribute, an aria-label, a label in its
\* container, and a previous sibling
QuestionControls ==
    { [BaseControl EXCEPT !.value = "Ann", !.name = n, !.dataId = d, !.ariaLabel = al,
                          !.label = l, !.prevTag = pv[1], !.prevText = pv[2]] :
        n \in {"", "entry.1"}, d \in {"", "d1"}, al \in {"", "Aria"},
        l \in {"", " Your name "},
        pv \in { <<"", "">>, <<"LABEL", " Your name ">>, <<"DIV", "Hint">> } }

InitKeys ==
    /\ page \in ProviderPages
    /\ \E c \in QuestionControls : dom = <<c>>
    /\ pageState = <<>>
    /\ rendered = TRUE
    /\ chan = "send_resolves"
    /\ InitEngine(page, {1})
    /\ extracted = <<>>
    /\ WorkerIdle

NextKeys == Extract

SpecKeys == InitKeys /\ [][NextKeys]_vars

----------------------------------------------------------------------------
(* Background worker: message handlers and lifecycle.                       *)
(* Each action is the code that runs between two awaits: a handler up to   *)
(* the first call it awaits, or the continuation of the call that settles. *)

contentVars == <<pageVars, sendVars, watchVars, runVars, netVars, extracted>>

Settling(fn, step) ==
    /\ pending # <<>>
    /\ Head(pending).fn = fn
    /\ Head(pending).step = step

SaveIndex(id) == id - events.base

\* onMessage, FORM_SUBMISSION: saveSubmission(message.data) up to its get
FormSubmission ==
    /\ events.messages < MaxMessages
    /\ LET id == events.base + Len(saves) + 1
       IN /\ saves' = Append(saves, [id |-> id, outcome |-> "reading", email |-> "none"])
          /\ pending' = Append(pending, GetCall("saveSubmission", id))
    /\ events' = [events EXCEPT !.messages = @ + 1]
    /\ UNCHANGED <<storage, badge, requests, contentVars>>

\* saveSubmission after its get: unshift, cap, and the set it awaits next
SaveRead ==
    /\ Settling("saveSubmission", "get")
    /\ LET c == Head(pending)
       IN /\ pending' = Append(Tail(pending),
                 Call("saveSubmission", "set", c.id,
                      withSubmission(storedSubmissions(storage), c.id), NoSettings, {}))
          /\ saves' = [saves EXCEPT ![SaveIndex(c.id)].outcome = "writing"]
    /\ UNCHANGED <<storage, badge, requests, events, contentVars>>

\* saveSubmission after its set: badge, return true, and the then-callback
\* of the listener, which starts sendSubmissionEmail up to its get
SaveWritten ==
    /\ Settling("saveSubmission", "set")
    /\ LET c == Head(pending)
       IN /\ storage' = setSubmissions(storage, c.list)
          /\ badge' = badgeText(c.list)
          /\ saves' = [saves EXCEPT ![SaveIndex(c.id)].outcome = "saved"]
          /\ pending' = Append(Tail(pending), GetCall("sendSubmissionEmail", c.id))
    /\ UNCHANGED <<requests, events, contentVars>>

\* sendSubmissionEmail sending although emailEnabled is false
emailSkipped_IgnoreToggle(settings) ==
    Falsy(settings.resendApiKey) \/ Falsy(settings.emailTo)

\* the two early returns of sendSubmissionEmail
emailSkipped(settings) ==
    \/ Falsy(settings.resendApiKey) \/ Falsy(settings.emailTo)
    \/ settings.emailEnabled = "false"

\* sendSubmissionEmail after its get, up to the fetch of sendEmailViaResend
EmailDecided ==
    /\ Settling("sendSubmissionEmail", "get")
    /\ LET c == Head(pending)
           settings == storedSettings(storage)
       IN IF emailSkipped(settings)
          THEN /\ saves' = [saves EXCEPT ![SaveIndex(c.id)].email = "skipped"]
               /\ UNCHANGED requests
          ELSE /\ saves' = [saves EXCEPT ![SaveIndex(c.id)].email = "requested"]
               /\ requests' = Append(requests,
                     [url |-> RESEND_URL, id |-> c.id, to |-> settings.emailTo])
    /\ pending' = Tail(pending)
    /\ UNCHANGED <<storage, badge, events, contentVars>>

\* onMessage, CLEAR_SUBMISSIONS: up to the set it awaits
ClearSubmissions ==
    /\ events.messages < MaxMessages
    /\ pending' = Append(pending, Call("clearSubmissions", "set", events.asked + 1, <<>>,
                                       NoSettings, {}))
    /\ events' = [events EXCEPT !.messages = @ + 1, !.asked = @ + 1]
    /\ UNCHANGED <<storage, badge, saves, requests, contentVars>>

\* CLEAR_SUBMISSIONS after its set: badge, then { success: true }
Cleared ==
    /\ Settling("clearSubmissions", "set")
    /\ storage' = setSubmissions(storage, <<>>)
    /\ badge' = ""
    /\ events' = [Replied(events, Head(pending).id, "true") EXCEPT
                    !.erased = @ \cup { storedSubmissions(storage)[k] :
                                          k \in 1..Len(storedSubmissions(storage)) }]
    /\ pending' = Tail(pending)
    /\ UNCHANGED <<saves, requests, contentVars>>

\* the settings the popup sends
MessageSettings ==
    { Settings("re_key", "me@x.io", "true"), Settings("re_key", "me@x.io", "false") }

\* onMessage, SET_SETTINGS: up to the set it awaits
SetSettings ==
    /\ events.messages < MaxMessages
    /\ \E settings \in MessageSettings :
          pending' = Append(pending, Call("setSettings", "set", events.asked + 1, <<>>,
                                          settings, {}))
    /\ events' = [events EXCEPT !.messages = @ + 1, !.asked = @ + 1]
    /\ UNCHANGED <<storage, badge, saves, requests, contentVars>>

\* SET_SETTINGS after its set: { success: true }
SettingsWritten ==
    /\ Settling("setSettings", "set")
    /\ storage' = setSettings(storage, Head(pending).settings)
    /\ events' = Replied(events, Head(pending).id, "true")
    /\ pending' = Tail(pending)
    /\ UNCHANGED <<badge, saves, requests, contentVars>>

\* the messages answered from one chrome.storage.local.get
GetMessages == {"GET_SUBMISSIONS", "GET_SETTINGS", "GET_IGNORE_LIST"}

\* onMessage, GET_SUBMISSIONS / GET_SETTINGS / GET_IGNORE_LIST: up to the get
GetMessage ==
    /\ events.messages < MaxMessages
    /\ \E type \in GetMessages :
          pending' = Append(pending, GetCall(type, events.asked + 1))
    /\ events' = [events EXCEPT !.messages = @ + 1, !.asked = @ + 1]
    /\ UNCHANGED <<storage, badge, saves, requests, contentVars>>

\* the get of a GET_... message settles: the stored value, or its default,
\* is passed to sendResponse
GetAnswered ==
    /\ pending # <<>>
    /\ Head(pending).fn \in GetMessages
    /\ events' = Replied(events, Head(pending).id, UNDEFINED)
    /\ pending' = Tail(pending)
    /\ UNCHANGED <<storage, badge, saves, requests, contentVars>>

\* onMessage, SEND_EMAIL: sendEmailViaResend up to its fetch; the listener
\* returns false without keeping sendResponse
SendEmail ==
    /\ events.messages < MaxMessages
    /\ pending' = Append(pending, Call("sendEmailViaResend", "fetch", events.asked + 1, <<>>,
                                       NoSettings, {}))
    /\ events' = [events EXCEPT !.messages = @ + 1, !.asked = @ + 1]
    /\ UNCHANGED <<storage, badge, saves, requests, contentVars>>

\* the fetch of a SEND_EMAIL settles, ok or not: the result is logged
EmailSettled ==
    /\ Settling("sendEmailViaResend", "fetch")
    /\ pending' = Tail(pending)
    /\ UNCHANGED <<storage, badge, saves, requests, events, contentVars>>

\* chrome.runtime.onInstalled: initStorage up to its get
OnInstalled ==
    /\ ~events.installed
    /\ pending' = Append(pending, GetCall("initStorage", 0))
    /\ events' = [events EXCEPT !.installed = TRUE]
    /\ UNCHANGED <<storage, badge, saves, requests, contentVars>>

\* chrome.runtime.onStartup: initStorage up to its get
OnStartup ==
    /\ ~events.startup
    /\ pending' = Append(pending, GetCall("initStorage", 0))
    /\ events' = [events EXCEPT !.startup = TRUE]
    /\ UNCHANGED <<storage, badge, saves, requests, contentVars>>

\* the key initStorage sets next: submissions, then ignoreList, then settings
nextMissing(missing) ==
    IF "submissions" \in missing THEN "submissions"
    ELSE IF "ignoreList" \in missing THEN "ignoreList"
    ELSE "settings"

\* initStorage from a set of missing keys: the set it awaits next, if any
initStorageFrom(missing, rest) ==
    IF missing = {} THEN rest
    ELSE Append(rest, Call("initStorage", "set", 0, <<>>, NoSettings, missing))

\* initStorage after its get
InitRead ==
    /\ Settling("initStorage", "get")
    /\ pending' = initStorageFrom(StorageKeys \ storage.has, Tail(pending))
    /\ UNCHANGED <<storage, badge, saves, requests, events, contentVars>>

\* initStorage after one of its sets
InitWritten ==
    /\ Settling("initStorage", "set")
    /\ LET missing == Head(pending).missing
           key == nextMissing(missing)
       IN /\ storage' = CASE key = "submissions" -> setSubmissions(storage, <<>>)
                          [] key = "ignoreList" -> setIgnoreList(storage)
                          [] OTHER -> setSettings(storage, DefaultSettings)
          /\ pending' = initStorageFrom(missing \ {key}, Tail(pending))
    /\ UNCHANGED <<badge, saves, requests, events, contentVars>>

\* the top-level get of the initial badge count, after it settles
InitialBadge ==
    /\ Settling("initialBadge", "get")
    /\ LET count == Len(storedSubmissions(storage))
       IN badge' = IF count > 0 THEN toString(count) ELSE badge
    /\ pending' = Tail(pending)
    /\ UNCHANGED <<storage, saves, requests, events, contentVars>>

\* a chrome.storage.local.set that rejects: the awaiting function throws
\* (saveSubmission returns false; CLEAR_SUBMISSIONS and SET_SETTINGS answer
\* { success: false, error })
SetRejected ==
    /\ pending # <<>>
    /\ Head(pending).step = "set"
    /\ LET c == Head(pending)
       IN /\ saves' = IF c.fn = "saveSubmission"
                      THEN [saves EXCEPT ![SaveIndex(c.id)].outcome = "failed"]
                      ELSE saves
          /\ events' = IF c.fn \in {"clearSubmissions", "setSettings"}
                       THEN Replied(events, c.id, "false")
                       ELSE events
    /\ pending' = Tail(pending)
    /\ UNCHANGED <<storage, badge, requests, contentVars>>

\* the page's variables while only the worker runs
ContentIdle ==
    /\ page = Pages.shop
    /\ dom = <<>>
    /\ formAction = ""
    /\ chan = "send_resolves"
    /\ dispatched = <<>>
    /\ sendCalls = 0
    /\ lastSend = NoSend
    /\ lastTrigger = "none"
    /\ rendered = TRUE
    /\ pageState = <<>>
    /\ nodes = <<>>
    /\ observers = [prov \in Providers |-> 0]
    /\ intervals = 0
    /\ mutated = FALSE
    /\ timers = <<>>
    /\ chains = <<>>
    /\ userEvents = <<>>
    /\ xhr = NoXhr
    /\ lastCall = NoCall
    /\ netCalls = 0
    /\ extracted = <<>>

\* n stored submissions, most recent first
Stored(n) == [i \in 1..n |-> n + 1 - i]

InitialCounts == {0, 1, MAX_SUBMISSIONS - 1, MAX_SUBMISSIONS}

StoredSettings ==
    { DefaultSettings,
      Settings("re_key", "me@x.io", "true"),
      Settings("re_key", "me@x.io", UNDEFINED),
      Settings("re_key", "me@x.io", "false"),
      Settings("re_key", "", "true") }

\* The worker right after its script ran: initStorage() and the get of the
\* initial badge count are in flight, over a fresh or an initialised storage
InitWorker ==
    /\ ContentIdle
    /\ \/ storage = FreshStorage /\ events = NoEvents
       \/ \E n \in InitialCounts, settings \in StoredSettings :
             /\ storage = [has |-> StorageKeys, submissions |-> Stored(n),
                           settings |-> settings]
             /\ events = [NoEvents EXCEPT !.base = n]
    /\ badge \in {"", badgeText(storedSubmissions(storage))}
    /\ pending = <<GetCall("initStorage", 0), GetCall("initialBadge", 0)>>
    /\ saves = <<>>
    /\ requests = <<>>

NextWorker ==
    \/ FormSubmission \/ SaveRead \/ SaveWritten \/ EmailDecided
    \/ ClearSubmissions \/ Cleared
    \/ SetSettings \/ SettingsWritten
    \/ OnInstalled \/ OnStartup \/ InitRead \/ InitWritten \/ InitialBadge
    \/ SetRejected

SpecWorker == InitWorker /\ [][NextWorker]_vars

\* Saves only: the worker over an initialised storage, receiving nothing but
\* FORM_SUBMISSION messages (initStorage finds every key and writes nothing)
InitSaves ==
    /\ InitWorker
    /\ storage.has = StorageKeys

\* Replies: the worker receiving the messages whose sender awaits a reply
NextReplies ==
    \/ ClearSubmissions \/ Cleared
    \/ SetSettings \/ SettingsWritten
    \/ GetMessage \/ GetAnswered
    \/ SendEmail \/ EmailSettled
    \/ InitRead \/ InitWritten \/ InitialBadge
    \/ SetRejected

SpecReplies == InitWorker /\ [][NextReplies]_vars

NextSaves ==
    \/ FormSubmission \/ SaveRead \/ SaveWritten \/ EmailDecided
    \/ InitRead \/ InitialBadge
    \/ SetRejected

SpecSaves == InitSaves /\ [][NextSaves]_vars

----------------------------------------------------------------------------
(* Properties of the native submit path and of the dispatcher *)

EmailControl == [BaseControl EXCEPT !.type = "email", !.name = "email", !.value = "a@b.com"]
PasswordControl == [BaseControl EXCEPT !.type = "password", !.name = "password", !.value = "x"]

\* C2: extractFormData never returns a value read from a password control, and
\* the form <<email "a@b.com", password "x">> is dispatched with fields
\* exactly {email: "a@b.com"}.
C2_NoPasswordValue ==
    /\ \A c \in SourcesOf(extractFormData(dom)) : dom[c].type # "password"
    /\ \A i \in 1..Len(dispatched) :
          /\ \A c \in SourcesOf(dispatched[i].fields) : dom[c].type # "password"
          /\ dom = <<EmailControl, PasswordControl>> =>
                dispatched[i].fields =
                   <<[key |-> "email", arr |-> FALSE, vals |-> <<"a@b.com">>, src |-> <<1>>]>>

C2_Witness ==
    /\ dom = <<EmailControl, PasswordControl>>
    /\ lastTrigger = "submit"
    /\ Len(dispatched) = 1

\* C8: safeSendMessage never throws, its promise never rejects, and
\* chrome.runtime.sendMessage is called at most once per dispatched message.
C8_SendNeverFails ==
    /\ \A c \in ChanStates :
          /\ safeSendMessage(c).threw = FALSE
          /\ safeSendMessage(c).promise = "resolved"
          /\ safeSendMessage(c).calls <= 1
    /\ lastSend.threw = FALSE
    /\ lastSend.promise # "rejected"
    /\ sendCalls <= Len(dispatched)

C8_Witness ==
    /\ chan = "send_rejects"
    /\ Len(dispatched) = 2
    /\ sendCalls = 2
    /\ lastSend.promise = "resolved"

----------------------------------------------------------------------------
(* Properties of the capture chains and of discovery *)

FromPassword(fields) ==
    \E c \in SourcesOf(fields) : c # 0 /\ dom[c].type = "password"

\* C3: no Submission dispatched by a provider capture chain, the salvage pass
\* included, has a field read from a password control.
C3_ChainNoPassword ==
    \A i \in 1..Len(dispatched) : ~FromPassword(dispatched[i].fields)

\* C7: one mousedown followed by one click on a watched submit control, the
\* rendered controls unchanged, gives at most one dispatched FORM_SUBMISSION.
C7_OneDispatchPerSubmit ==
    (/\ userEvents = << <<"render", 0>>, <<"mousedown", 1>>, <<"click", 1>> >>
     /\ nodes[1].watched)
       => Len(dispatched) <= 1

\* C9: a chain whose extractor returned empty on attempts 1 and 2 and non-empty
\* on attempt 3 dispatches exactly one Submission, carrying attempt 3's
\* mapping; while only empty attempts have been made nothing is dispatched.
C9_ThirdAttemptDispatched ==
    \A id \in 1..Len(chains) :
       LET c == chains[id]
       IN /\ (Len(c.results) = 3 /\ c.results[1] = <<>> /\ c.results[2] = <<>>
              /\ c.results[3] # <<>>)
                => /\ c.sent = << c.results[3] >>
                   /\ \E i \in 1..Len(dispatched) : dispatched[i].fields = c.results[3]
          /\ (Len(c.results) < 3 /\ \A k \in 1..Len(c.results) : c.results[k] = <<>>)
                => c.sent = <<>>

C9_Witness ==
    \E id \in 1..Len(chains) :
       /\ chains[id].prov \in {"google", "clickup"}
       /\ Len(chains[id].results) = 3
       /\ chains[id].results[1] = <<>> /\ chains[id].results[2] = <<>>
       /\ chains[id].results[3] # <<>>
       /\ Len(chains[id].sent) = 1

\* C10: every node carries at most one engine click listener and at most one
\* engine press listener, whatever discovery runs have happened.
C10_OneListenerPair ==
    \A j \in 1..Len(nodes) : nodes[j].click <= 1 /\ nodes[j].press <= 1

C10_Witness ==
    /\ TotalObservers(observers) >= 2
    /\ \E j \in 1..Len(nodes) : nodes[j].watched /\ nodes[j].click = 1
    /\ \E j \in 1..Len(nodes) : nodes[j].present /\ ~nodes[j].watched

----------------------------------------------------------------------------
(* Properties of the network interceptor *)

\* C1: no FORM_SUBMISSION is dispatched for a trigger whose page URL or
\* action / request URL matches an ignore pattern.
C1_IgnoredNeverDispatched ==
    \A i \in 1..Len(dispatched) : ~shouldIgnore(page.href, dispatched[i].action)

FromPasswordKey(fields) ==
    \E c \in SourcesOf(fields) : c < 0 /\ hasPassword(BodyKeys[0 - c])

\* C4: no field of a network-derived Submission comes from a body key that
\* contains "password", entry. / entry_ keys included.
C4_NoPasswordBodyKey ==
    \A i \in 1..Len(dispatched) : ~FromPasswordKey(dispatched[i].fields)

\* C5: every call of a wrapped primitive invokes the original exactly once
\* with the caller's arguments and returns its result.
C5_OriginalAlwaysCalled ==
    lastCall.prim # "none" => lastCall.origCalls = 1 /\ lastCall.passed

\* C6: no exception raised by the engine's own logic reaches the caller of a
\* wrapped primitive.
C6_NoHostException ==
    lastCall.threw = FALSE

----------------------------------------------------------------------------
(* Properties of the Submission record *)

SpecSources == {"native", "google-forms", "microsoft-forms", "clickup-forms", "fetch-generic"}
CodeSources == {"undefined", "google-forms", "microsoft-forms", "clickup-forms", "fetch"}

NoProviderRule(urlStr) ==
    /\ ~isGoogleFormsEndpoint(urlStr)
    /\ ~isMicrosoftFormsEndpoint(urlStr)
    /\ ~isClickUpFormsEndpoint(urlStr)

EmptyValue(fields) ==
    \E k \in 1..Len(fields) : \E n \in 1..Len(fields[k].vals) :
       fields[k].vals[n] \in {"", UNDEFINED}

\* C12: no entry of the fields of a dispatched Submission has an empty-string
\* or undefined value.
C12_NoEmptyValue ==
    \A i \in 1..Len(dispatched) : ~EmptyValue(dispatched[i].fields)

IgnoreWords == {"login", "signin", "password", "auth", "bank", "credit", "payment"}

ContainsIgnoreWord(u) ==
    \E w \in IgnoreWords : includes(toLowerCase(IF u = UNDEFINED THEN "" ELSE u), w)

\* C13: a native submit on a page whose URL or form action contains one of
\* the seven words, in any letter case, dispatches nothing and calls the
\* channel not at all; shouldIgnore is true exactly when a word occurs in
\* either input, a missing input counting as the empty string.
C13_IgnoredNativeSilent ==
    /\ (ContainsIgnoreWord(page.href) \/ ContainsIgnoreWord(formAction))
          => dispatched = <<>> /\ sendCalls = 0
    /\ shouldIgnore(page.href, formAction)
          <=> (ContainsIgnoreWord(page.href) \/ ContainsIgnoreWord(formAction))
    /\ shouldIgnore(UNDEFINED, formAction) <=> ContainsIgnoreWord(formAction)
    /\ shouldIgnore(page.href, UNDEFINED) <=> ContainsIgnoreWord(page.href)
    /\ ~shouldIgnore(UNDEFINED, UNDEFINED)

C13_Witness ==
    /\ lastTrigger = "submit"
    /\ ~ContainsIgnoreWord(page.href) /\ formAction = "https://shop.io/Payment/do"
    /\ keysLength(extractFormData(dom)) > 0
    /\ dispatched = <<>>

ScenarioCUrl == "https://x.io/formResponse"
ScenarioCBody == Body("urlenc", << <<"entry.111", "Foo">> >>)
ScenarioCFields ==
    << [key |-> "111", arr |-> FALSE, vals |-> <<"Foo">>,
        src |-> <<KeyOrigin("entry.111")>>] >>

\* C14: a wrapped fetch POST to a URL containing /formResponse with the
\* URL-encoded body entry.111=Foo is classified as a Google Forms endpoint
\* and dispatches, in the same step, one Submission with fields exactly
\* {"111": "Foo"} and source google-forms.
C14_ScenarioC ==
    [][FetchCall(ScenarioCUrl, [method |-> "POST", body |-> ScenarioCBody]) =>
          /\ isGoogleFormsEndpoint(ScenarioCUrl)
          /\ Len(dispatched') = Len(dispatched) + 1
          /\ dispatched'[Len(dispatched')].fields = ScenarioCFields
          /\ dispatched'[Len(dispatched')].action = ScenarioCUrl
          /\ dispatched'[Len(dispatched')].source = "google-forms"]_vars

C14_Witness ==
    /\ lastCall.prim = "fetch"
    /\ \E i \in 1..Len(dispatched) :
          /\ dispatched[i].action = ScenarioCUrl
          /\ dispatched[i].fields = ScenarioCFields
          /\ dispatched[i].source = "google-forms"

----------------------------------------------------------------------------
(* Properties of the extractors *)

\* what a control of a native form contributes, stated from the control alone
Contributes(c) ==
    /\ c.name # "" /\ ~c.disabled /\ c.type # "password"
    /\ IF c.type \in {"checkbox", "radio"} THEN c.checked
       ELSE IF c.type = "file" THEN c.files > 0
       ELSE c.value # ""

Contribution(c) ==
    IF c.type \in {"checkbox", "radio"} THEN (IF c.value = "" THEN "checked" ELSE c.value)
    ELSE IF c.type = "file" THEN fileCountText(c.files)
    ELSE c.value

\* the contributing controls named n, in control order
ContributorsOf(elements, n) ==
    SelectSeq([i \in 1..Len(elements) |-> i],
              LAMBDA i : elements[i].name = n /\ Contributes(elements[i]))

ScenarioD == << Checkbox("interests", "a", TRUE), Checkbox("interests", "b", TRUE) >>

\* C15: extractFormData maps every name that has a contributing control to
\* the contributions of the controls of that name in control order, as a
\* sequence when there are several and as a scalar when there is one; nothing
\* else is in the mapping; two checked checkboxes interests = a, b give
\* interests = <<a, b>>; the native submit path dispatches that mapping.
C15_SameNameAccumulates ==
    LET fd == extractFormData(dom)
    IN /\ \A k \in 1..Len(fd) :
             LET who == ContributorsOf(dom, fd[k].key)
             IN /\ Len(who) > 0
                /\ fd[k].src = who
                /\ fd[k].vals = [j \in 1..Len(who) |-> Contribution(dom[who[j]])]
                /\ fd[k].arr = (Len(who) > 1)
                /\ \A m \in 1..Len(fd) : fd[m].key = fd[k].key => m = k
       /\ \A i \in 1..Len(dom) : Contributes(dom[i]) => HasKey(fd, dom[i].name)
       /\ dom = ScenarioD =>
             fd = << [key |-> "interests", arr |-> TRUE, vals |-> <<"a", "b">>,
                      src |-> <<1, 2>>] >>
       /\ \A i \in 1..Len(dispatched) : dispatched[i].fields = fd

C15_Witness ==
    /\ dom = ScenarioD
    /\ lastTrigger = "submit"
    /\ Len(dispatched) = 1
    /\ dispatched[1].fields[1].vals = <<"a", "b">>

KeysOf(fields) == { fields[i].key : i \in 1..Len(fields) }

ValueOf(fields, k) ==
    LET e == fields[CHOOSE i \in 1..Len(fields) : fields[i].key = k]
    IN [arr |-> e.arr, vals |-> e.vals]

\* equal key by key, multi-valued sequences in the same order
SameMapping(f, g) ==
    /\ KeysOf(f) = KeysOf(g)
    /\ \A k \in KeysOf(f) : ValueOf(f, k) = ValueOf(g, k)

C20_RetryThenSalvage ==
    \A id \in 1..Len(chains) :
        LET c == chains[id]
        IN keysLength(c.results[Len(c.results)]) = 0 =>
              IF c.attempts < 3
              THEN \E i \in 1..Len(timers) :
                      timers[i].kind = "attempt" /\ timers[i].chain = id
              ELSE c.salvaged

RetryPending(id) ==
    \E i \in 1..Len(timers) : timers[i].kind = "attempt" /\ timers[i].chain = id

\* C21: a Google or ClickUp capture chain invokes its extractor at most 3
\* times, has no continuation pending once an attempt found data, once the
\* third attempt ran or once it salvaged, salvages only on the third attempt,
\* has at most one continuation pending at a time, and dispatches at most one
\* Submission, never one with an empty mapping
C21_ChainTerminates ==
    \A id \in 1..Len(chains) :
        LET c == chains[id]
            last == c.results[Len(c.results)]
        IN c.prov \in {"google", "clickup"} =>
              /\ Len(c.results) <= 3
              /\ c.attempts = Len(c.results)
              /\ (keysLength(last) > 0 \/ c.attempts = 3 \/ c.salvaged) => ~RetryPending(id)
              /\ c.salvaged => (c.attempts = 3 /\ keysLength(last) = 0)
              /\ Cardinality({ i \in 1..Len(timers) :
                                 timers[i].kind = "attempt" /\ timers[i].chain = id }) <= 1
              /\ Len(c.sent) <= 1
              /\ \A k \in 1..Len(c.sent) : keysLength(c.sent[k]) > 0
              /\ (c.sent # <<>>) => ~RetryPending(id)

\* a chain ran three empty attempts and its salvage pass, and gave up silently
C21_Witness ==
    \E id \in 1..Len(chains) :
        /\ chains[id].prov \in {"google", "clickup"}
        /\ Len(chains[id].results) = 3
        /\ chains[id].salvaged
        /\ chains[id].sent = <<>>
        /\ ~RetryPending(id)

\* C22: a retry attempt that runs when the page is no longer classified as
\* the chain's provider extracts nothing and dispatches nothing
C22_ReclassifiedEachAttempt ==
    [][(FireAttempt /\ ~isProvider(chains[Head(timers).chain].prov, page))
          => (chains' = chains /\ dispatched' = dispatched)]_vars

----------------------------------------------------------------------------
(* Properties of the network interceptor on POST calls *)

EntryKeys(body) ==
    { body.pairs[n][1] : n \in { m \in 1..Len(body.pairs) :
                                   startsWith(body.pairs[m][1], "entry.") } }

BareKey(key) == SubSeq(key, 7, Len(key))

\* the mapping has every entry.<id> key of the body under <id> only
Normalised(fields, body) ==
    \A key \in EntryKeys(body) :
        /\ \E k \in 1..Len(fields) : fields[k].key = BareKey(key)
        /\ \A k \in 1..Len(fields) : fields[k].key # key

ProviderSources == {"google-forms", "microsoft-forms", "clickup-forms"}

\* the providers whose endpoint rule the URL matches
Matched(urlStr) ==
    (IF isGoogleFormsEndpoint(urlStr) THEN {"google"} ELSE {})
    \cup (IF isMicrosoftFormsEndpoint(urlStr) THEN {"microsoft"} ELSE {})
    \cup (IF isClickUpFormsEndpoint(urlStr) THEN {"clickup"} ELSE {})

Captures(q, prov) ==
    Cardinality({ i \in 1..Len(q) : q[i].kind = "capture" /\ q[i].prov = prov })

NetSends(q) == { q[i].arg : i \in { j \in 1..Len(q) : q[j].kind = "netsend" } }

GoogleUrl == "https://docs.google.com/forms/d/e/1/formResponse"

\* C24: a JSON or URL-encoded body sent to a Google Forms endpoint, by fetch
\* or by XMLHttpRequest, gives a mapping with every entry.<id> key under <id>
C24_EntryPrefixStripped ==
    [][\A b \in PostBodies : b.kind \in {"json", "urlenc"} =>
          /\ FetchCall(GoogleUrl, [method |-> "POST", body |-> b])
                => /\ Len(dispatched') = Len(dispatched) + 1
                   /\ Normalised(dispatched'[Len(dispatched')].fields, b)
          /\ (XhrSend(b) /\ xhr.url = GoogleUrl)
                => \E a \in NetSends(timers') \ NetSends(timers) :
                      Normalised(a.fields, b)]_vars

\* C25: a POST of either primitive whose body parses to a non-empty mapping
\* dispatches a Submission built from the call (fetch: at once, XMLHttpRequest:
\* on its 200 ms timer), with a provider's source exactly when the URL
\* matched a provider rule
C25_NetworkSubmissionBuilt ==
    [][\A b \in PostBodies : b.kind \in {"json", "urlenc"} =>
          /\ \A u \in PostUrls :
                FetchCall(u, [method |-> "POST", body |-> b])
                   => /\ Len(dispatched') = Len(dispatched) + 1
                      /\ (dispatched'[Len(dispatched')].source \in ProviderSources)
                            <=> (Matched(u) # {})
          /\ (XhrSend(b) /\ xhr.method = "POST")
                => \E a \in NetSends(timers') \ NetSends(timers) :
                      (xhrSource(a.action) \in ProviderSources)
                         <=> (Matched(xhr.url) # {})]_vars

\* C26: a POST with a body, of either primitive, to a URL that matches a
\* provider rule schedules that provider's DOM capture, parseable body or not
C26_ProviderCaptureScheduled ==
    [][\A b \in PostBodies : b.kind # "none" =>
          /\ \A u \in PostUrls :
                FetchCall(u, [method |-> "POST", body |-> b])
                   => \A prov \in Matched(u) :
                         Captures(timers', prov) > Captures(timers, prov)
          /\ (XhrSend(b) /\ xhr.method = "POST")
                => \A prov \in Matched(xhr.url) :
                      Captures(timers', prov) > Captures(timers, prov)]_vars

\* C27: every dispatched Submission has the page location in url, and a
\* network-derived one has the request URL in action
C27_UrlIsPageLocation ==
    \A i \in 1..Len(dispatched) :
        /\ dispatched[i].url = page.href
        /\ dispatched[i].source # "undefined" => dispatched[i].action \in PostUrls

----------------------------------------------------------------------------
(* Properties of the watcher's instrumentation *)

\* C28: every node the watcher has marked, on each of the three providers,
\* carries a capture-phase click listener and a capture-phase mousedown
\* listener
C28_ClickAndMousedown ==
    \A j \in 1..Len(nodes) :
        nodes[j].watched => nodes[j].click >= 1 /\ nodes[j].press >= 1

\* C29: a node carries listeners only if it carries the mark, and no step
\* takes the mark off a node
C29_WatchedOnlySet ==
    /\ [](\A j \in 1..Len(nodes) :
             nodes[j].click + nodes[j].press > 0 => nodes[j].watched)
    /\ [][\A j \in 1..Len(nodes) : nodes[j].watched => nodes'[j].watched]_vars

\* discovery has run again (a second observer is installed) over two nodes
\* marked and instrumented once, with a third in the document still unmarked
C29_Witness ==
    /\ TotalObservers(observers) >= 2
    /\ \E j, k, l \in 1..Len(nodes) :
          /\ j # k
          /\ nodes[j].watched /\ nodes[j].click = 1
          /\ nodes[k].watched /\ nodes[k].click = 1
          /\ nodes[l].present /\ ~nodes[l].watched

\* C30: the page is classified Google exactly on host docs.google.com with
\* /forms/ in the path, Microsoft exactly on the three Microsoft Forms hosts,
\* ClickUp exactly on host forms.clickup.com, and the watcher instruments
\* nodes for a provider only on a page so classified
ClaimedProvider(prov, p) ==
    CASE prov = "google" -> p.hostname = "docs.google.com" /\ includes(p.pathname, "/forms/")
      [] prov = "microsoft" -> p.hostname \in { "forms.office.com", "forms.microsoft.com",
                                                "forms.office365.com" }
      [] prov = "clickup" -> p.hostname = "forms.clickup.com"

C30_ClassifiedByExactHost ==
    /\ \A prov \in {"google", "microsoft", "clickup"} :
          isProvider(prov, page) <=> ClaimedProvider(prov, page)
    /\ \A j \in 1..Len(nodes) :
          nodes[j].watched => ClaimedProvider(nodes[j].by, page)

\* C31: at most one of isGoogleForm, isMicrosoftForm, isClickUpForm holds of
\* the page, and the engine has observers of at most one provider
C31_OneProviderPerPage ==
    /\ Cardinality({ prov \in Providers : isProvider(prov, page) }) <= 1
    /\ Cardinality({ prov \in Providers : observers[prov] > 0 }) <= 1

----------------------------------------------------------------------------
(* Properties of the background worker *)

MostRecentFirst(list) == \A i \in 1..(Len(list) - 1) : list[i] > list[i + 1]

\* what a save leaves of the list it read: all of it, or all but the oldest
\* entries beyond MAX_SUBMISSIONS - 1
KeptOf(list) ==
    IF Len(list) < MAX_SUBMISSIONS THEN list ELSE SubSeq(list, 1, MAX_SUBMISSIONS - 1)

\* C16: the stored list never holds more than 200 submissions and is ordered
\* most recently saved first; the list a save writes is the new submission
\* followed by the list it read, less the oldest entries beyond the cap
C16_CappedNewestFirst ==
    /\ [](Len(storage.submissions) <= 200 /\ MostRecentFirst(storage.submissions))
    /\ [][SaveRead =>
            LET c == pending'[Len(pending')]
            IN /\ Head(c.list) = Head(pending).id
               /\ Tail(c.list) = KeptOf(storedSubmissions(storage))]_vars
    /\ [][SaveWritten => storage'.submissions = Head(pending).list]_vars

\* a save onto a full list was written: 201 at the head, 1 dropped
C16_Witness ==
    /\ Len(saves) > 0
    /\ saves[1].outcome = "saved"
    /\ Len(storage.submissions) = 200
    /\ storage.submissions[1] = 201
    /\ storage.submissions[200] = 2

DigitValue(c) ==
    CASE c = "0" -> 0 [] c = "1" -> 1 [] c = "2" -> 2 [] c = "3" -> 3
      [] c = "4" -> 4 [] c = "5" -> 5 [] c = "6" -> 6 [] c = "7" -> 7
      [] c = "8" -> 8 [] c = "9" -> 9 [] OTHER -> -1

\* the number a string of decimal digits denotes
RECURSIVE DecimalValue(_)
DecimalValue(s) ==
    IF Len(s) = 0 THEN 0
    ELSE 10 * DecimalValue(SubSeq(s, 1, Len(s) - 1)) + DigitValue(SubSeq(s, Len(s), Len(s)))

BadgeShows(n) ==
    IF n = 0 THEN badge = ""
    ELSE badge # "" /\ SubSeq(badge, 1, 1) # "0" /\ DecimalValue(badge) = n

\* C18: whenever the worker has no call in flight, the badge text is the
\* decimal count of the stored submissions, and empty when there are none
C18_BadgeIsCount ==
    pending = <<>> => BadgeShows(Len(storedSubmissions(storage)))

IsSet(v) == v \notin {"", UNDEFINED, NULL}

\* C19: the worker makes an external request only from sendSubmissionEmail,
\* only to the e-mail API, only for a submission whose save succeeded, at
\* most once per submission, and only when the stored settings at that
\* moment have resendApiKey and emailTo set and emailEnabled is not false
C19_EmailOnlyWhenConfigured ==
    [][requests' # requests =>
         /\ Settling("sendSubmissionEmail", "get")
         /\ LET id == Head(pending).id
            IN /\ saves[id - events.base].outcome = "saved"
               /\ \A i \in 1..Len(requests) : requests[i].id # id
               /\ requests' = Append(requests,
                     [url |-> "https://api.resend.com/emails", id |-> id,
                      to |-> storage.settings.emailTo])
         /\ "settings" \in storage.has
         /\ IsSet(storage.settings.resendApiKey)
         /\ IsSet(storage.settings.emailTo)
         /\ storage.settings.emailEnabled # "false"]_vars

\* one submission was mailed, and the save of another one failed
C19_Witness ==
    /\ Len(requests) = 1
    /\ \E i \in 1..Len(saves) : saves[i].outcome = "failed" /\ saves[i].email = "none"

----------------------------------------------------------------------------
(* Properties of the provider extractors' keys *)

ProviderExtractors ==
    {"extractGoogleFormData", "extractMicrosoftFormData", "extractClickUpFormData"}

\* the identifier attribute an extractor reads after the name attribute
Identifier(fn, element) ==
    IF fn = "extractGoogleFormData" THEN element.ariaLabel ELSE element.dataId

NameThenIdentifierThenLabel(fn, element) ==
    IF element.name # "" THEN element.name
    ELSE IF Identifier(fn, element) # "" THEN Identifier(fn, element)
    ELSE trim(element.label)

C33_ContainerLabelWins ==
    \A n \in 1..Len(extracted) :
        (extracted[n].fn = "extractClickUpFormData" /\ trim(dom[1].label) # "")
           => KeysOf(extracted[n].fields) = { trim(dom[1].label) }

----------------------------------------------------------------------------
(* Fetch and XMLHttpRequest compared *)

\* C34: two network-derived Submissions for the same request URL, whichever
\* primitive each came from, carry the same source
C34_SameSourceBothPrimitives ==
    \A i, j \in 1..Len(dispatched) :
        (dispatched[i].action \in PostUrls /\ dispatched[i].action = dispatched[j].action)
           => dispatched[i].source = dispatched[j].source

----------------------------------------------------------------------------
(* Resources of the watcher *)

\* the live 1000 ms rescan intervals of a provider's setups
Rescans(q, prov) ==
    Cardinality({ i \in 1..Len(q) : q[i].kind = "rescan" /\ q[i].prov = prov })

\* C35: however often the setups run, a page has at most one mutation
\* observer and one rescan interval per provider
C35_OneObserverPerProvider ==
    \A prov \in Providers :
        observers[prov] <= 1 /\ Rescans(timers, prov) <= 1

----------------------------------------------------------------------------
(* Concurrent handlers of the background worker *)

\* the submissions in the stored list
StoredIds == { storedSubmissions(storage)[k] : k \in 1..Len(storedSubmissions(storage)) }

\* C36: once no call is in flight, every submission whose saveSubmission
\* returned true is in the stored list, as long as the list is below the cap
C36_NoLostSave ==
    (pending = <<>> /\ Len(storedSubmissions(storage)) < MAX_SUBMISSIONS)
       => \A i \in 1..Len(saves) :
             saves[i].outcome = "saved" => saves[i].id \in StoredIds

\* C37: a submission that was stored when an answered CLEAR_SUBMISSIONS was
\* written is never in the stored list afterwards
C37_ClearedStaysCleared == \A id \in events.erased : id \notin StoredIds

\* C39: once no call is in flight, every message whose sender awaits a reply
\* has been answered exactly once
C39_OneReplyEach ==
    pending = <<>>
       => \A to \in 1..events.asked :
             Cardinality({ n \in 1..Len(events.replies) : events.replies[n].to = to }) = 1

\* C38: a set of initStorage on a key that storage already holds leaves
\* the stored value as it was
C38_InitKeepsStored ==
    [][InitWritten => \/ nextMissing(Head(pending).missing) \notin storage.has
                      \/ storage' = storage]_vars

============================================================================
